---- MODULE Spec2Model ----
(***************************************************************************)
(* Model of the educational-content workflow engine:                       *)
(*   - progressTrackingTool (the Progress Store, one JSON file per run),   *)
(*   - generateContentChunk (the section adapter with its retry loop),     *)
(*   - parseOutlineIntoChapters (the outline parser),                      *)
(*   - the four steps of improvedEducationalContentWorkflow.               *)
(* Timestamps (startTime, lastUpdate, completedAt and the ISO prefix of    *)
(* every errors entry) are not modelled.                                   *)
(***************************************************************************)
EXTENDS Integers, Sequences, FiniteSets, TLC

VARIABLES
    store,              \* workflow_progress/<id>_progress.json: <<>> or <<record>>
    pc,                 \* position of the workflow run
    inputData,          \* {topic, targetWordCount} of the trigger
    workflowId,         \* id generated by initialize-and-plan
    chapters,           \* parsed outline (output of PLAN)
    totalSections,      \* PLAN output
    progressInitialized,\* PLAN output: progressResult.success
    chapterIdx,         \* position of `for (const chapter of chapters)`
    sectionIndex,       \* loop variable of the section loop (0-based)
    attempt,            \* loop variable of generateContentChunk
    waits,              \* backoff waits (ms) performed by the current call
    inFlight,           \* writingAgent.generate calls not yet resolved
    writer,             \* behaviour of the writing capability in this run
    generatedChapters,  \* GENERATE local
    chapterSections,    \* GENERATE local
    chapterWordCount,   \* GENERATE local
    totalWordCount,     \* GENERATE local
    completedSections,  \* GENERATE local
    review,             \* REVIEW output: qualityScore, approvedForPublication
    result,             \* output of generate-final-pdf: <<>> or <<record>>
    thrown,             \* <<>> or <<[stage, error]>>: exception that left a step
    renderCalls,        \* number of pdfGenerationTool.execute calls
    storeCalls,         \* progressTrackingTool.execute calls issued by the run
    stageLog,           \* steps entered, in order
    lastCall,           \* the last direct call of the tool: <<>> or <<[action, success, thrown]>>
    config,             \* generateContentChunk called on its own: <<>> or <<config>>
    chunkPc,            \* position of that call
    chunkAttempt,       \* its loop variable `attempt`
    chunkWaits,         \* the setTimeout waits (ms) it has performed, in order
    chunkErrors,        \* the error messages of its failed attempts, in order
    invocations,        \* number of writingAgent.generate calls it has made
    chunkResult,        \* <<>>, the ContentChunk it returned or the Error it threw
    reviewed,           \* the review step's reading of one review text
    firstParse,         \* parseOutlineIntoChapters called on its own: the first call
    reparse,            \* the latest later call with the first call's arguments
    parseCalls,         \* number of calls of the parser so far
    disk,               \* "ok" or "failing": whether writeFileSync throws
    otherCompleted,     \* a second run: its local completedSections, <<>> before it starts
    writing,            \* a file truncated by writeFileSync, content not yet written
    observed,           \* what a reader in another process last got from loadProgress
    client              \* the page: the state of its start sequence and what it shows

storeVars == <<store>>
\* what no step of the run writes
inputVars == <<inputData, writer, lastCall, config, chunkPc, chunkAttempt, chunkWaits,
               chunkErrors, invocations, chunkResult, reviewed,
               firstParse, reparse, parseCalls, disk, otherCompleted, writing, observed,
               client>>
planVars == <<workflowId, chapters, totalSections, progressInitialized>>
genVars == <<chapterIdx, sectionIndex, generatedChapters, chapterSections,
             chapterWordCount, totalWordCount, completedSections>>
callVars == <<attempt, waits, inFlight>>
endVars == <<review, result, thrown, renderCalls>>
logVars == <<storeCalls, stageLog>>
chunkVars == <<config, chunkPc, chunkAttempt, chunkWaits, chunkErrors, invocations,
               chunkResult>>
gateVars == <<reviewed>>
parseVars == <<firstParse, reparse, parseCalls>>
diskVars == <<disk>>
otherVars == <<otherCompleted>>
monitorVars == <<writing, observed>>
clientVars == <<client>>
workflowVars == <<pc, inputData, writer, planVars, genVars, callVars, endVars, logVars>>
runVars == <<workflowVars, chunkVars, gateVars, parseVars, diskVars, otherVars, monitorVars,
            clientVars>>
vars == <<storeVars, runVars, lastCall>>

----------------------------------------------------------------------------
(* Bounds of the model *)

\* longest outline text, in lines
MaxLines == 4
\* longest errors / completedChapterDetails list built by direct store calls
MaxLog == 1
\* sections in the outline of a second, concurrent run
MaxOtherSections == 2

RunIds == {"r1", "r2"}

StoreIds == {"r1"}

----------------------------------------------------------------------------
(* Optional fields of a tool context: absent (undefined) or one value *)

Absent == <<>>
Some(v) == <<v>>

\* currentStep strings: a label and, for "Generating Chapter N: title", N
StepLabel(label, n) == [label |-> label, chapter |-> n]

\* error strings: the fixed text and the value interpolated into it
Message(text, arg) == [text |-> text, arg |-> arg]

EmptyString == Message("", "")

\* JavaScript truthiness of an optional number / string / message
TruthyNumber(opt) == opt # Absent /\ opt[1] # 0
TruthyString(opt) == opt # Absent /\ opt[1] # ""
TruthyStep(opt) == opt # Absent /\ opt[1].label # ""
TruthyMessage(opt) == opt # Absent /\ opt[1].text # ""

Context(action, id) ==
    [action |-> action, workflowId |-> id,
     topic |-> Absent, totalChapters |-> Absent, totalSections |-> Absent,
     targetWordCount |-> Absent,
     currentStep |-> Absent, completedChapters |-> Absent,
     completedSections |-> Absent, totalWordsGenerated |-> Absent,
     chapterCompleted |-> Absent, error |-> Absent]

----------------------------------------------------------------------------
(* progressTrackingTool *)

InitializeRejected(context) ==
    \/ ~TruthyString(context.topic)
    \/ ~TruthyNumber(context.totalChapters)
    \/ ~TruthyNumber(context.totalSections)
    \/ ~TruthyNumber(context.targetWordCount)

NewProgress(context) ==
    [workflowId |-> context.workflowId,
     topic |-> context.topic[1],
     currentStep |-> StepLabel("Initializing", 0),
     completedChapters |-> 0,
     totalChapters |-> context.totalChapters[1],
     completedSections |-> 0,
     totalSections |-> context.totalSections[1],
     totalWordsGenerated |-> 0,
     targetWordCount |-> context.targetWordCount[1],
     status |-> "in_progress",
     errors |-> <<>>,
     completedChapterDetails |-> <<>>]

UpdateRecordResettingStatus(progress, context) ==
    [progress EXCEPT
        !.status = "in_progress",
        !.currentStep = IF TruthyStep(context.currentStep)
                        THEN context.currentStep[1] ELSE @]

UpdateRecordSkippingSections(progress, context) ==
    [progress EXCEPT
        !.currentStep = IF TruthyStep(context.currentStep)
                        THEN context.currentStep[1] ELSE @,
        !.completedChapters = IF context.completedChapters # Absent
                              THEN context.completedChapters[1] ELSE @,
        !.totalWordsGenerated = IF context.totalWordsGenerated # Absent
                                THEN context.totalWordsGenerated[1] ELSE @,
        !.errors = IF TruthyMessage(context.error)
                   THEN Append(@, context.error[1]) ELSE @,
        !.completedChapterDetails = IF context.chapterCompleted # Absent
                                    THEN Append(@, context.chapterCompleted[1])
                                    ELSE @]

UpdateRecordReplacingErrors(progress, context) ==
    [progress EXCEPT
        !.currentStep = IF TruthyStep(context.currentStep)
                        THEN context.currentStep[1] ELSE @,
        !.completedChapters = IF context.completedChapters # Absent
                              THEN context.completedChapters[1] ELSE @,
        !.completedSections = IF context.completedSections # Absent
                              THEN context.completedSections[1] ELSE @,
        !.totalWordsGenerated = IF context.totalWordsGenerated # Absent
                                THEN context.totalWordsGenerated[1] ELSE @,
        !.errors = IF TruthyMessage(context.error)
                   THEN <<context.error[1]>> ELSE @,
        !.completedChapterDetails = IF context.chapterCompleted # Absent
                                    THEN Append(@, context.chapterCompleted[1])
                                    ELSE @]

UpdateRecord(progress, context) ==
    [progress EXCEPT
        !.currentStep = IF TruthyStep(context.currentStep)
                        THEN context.currentStep[1] ELSE @,
        !.completedChapters = IF context.completedChapters # Absent
                              THEN context.completedChapters[1] ELSE @,
        !.completedSections = IF context.completedSections # Absent
                              THEN context.completedSections[1] ELSE @,
        !.totalWordsGenerated = IF context.totalWordsGenerated # Absent
                                THEN context.totalWordsGenerated[1] ELSE @,
        !.errors = IF TruthyMessage(context.error)
                   THEN Append(@, context.error[1]) ELSE @,
        !.completedChapterDetails = IF context.chapterCompleted # Absent
                                    THEN Append(@, context.chapterCompleted[1])
                                    ELSE @]

CompleteRecordCountingChapter(progress) ==
    [progress EXCEPT !.status = "completed",
                     !.currentStep = StepLabel("Completed", 0),
                     !.completedChapters = @ + 1]

CompleteRecord(progress) ==
    [progress EXCEPT !.status = "completed",
                     !.currentStep = StepLabel("Completed", 0)]

FailRecord(progress, context) ==
    [progress EXCEPT !.status = "failed",
                     !.currentStep = StepLabel("Failed", 0),
                     !.errors = IF TruthyMessage(context.error)
                                THEN Append(@, context.error[1]) ELSE @]

\* one file for all runs
getProgressFilePathShared(id) == "r1"

\* one file per run: the file name embeds the workflowId, and the store is
\* indexed by the ids that name the files
getProgressFilePath(id) == id

loadProgress(st, id) == st[getProgressFilePath(id)]

saveProgress(st, id, progress) == [st EXCEPT ![getProgressFilePath(id)] = <<progress>>]

\* Math.round of the non-negative ratio n / d
Round(n, d) == (2 * n + d) \div (2 * d)

\* the progressPercentage execute returns for a record: the greater of the
\* section ratio and the word ratio, each 0 when its total is 0, times 100,
\* rounded
progressPercentage(progress) ==
    LET sectionNum == IF progress.totalSections > 0 THEN progress.completedSections ELSE 0
        sectionDen == IF progress.totalSections > 0 THEN progress.totalSections ELSE 1
        wordNum == IF progress.targetWordCount > 0 THEN progress.totalWordsGenerated ELSE 0
        wordDen == IF progress.targetWordCount > 0 THEN progress.targetWordCount ELSE 1
    IN  IF sectionNum * wordDen >= wordNum * sectionDen
        THEN Round(100 * sectionNum, sectionDen)
        ELSE Round(100 * wordNum, wordDen)

\* writeFileSync throws while the disk is failing
WriteFails == disk = "failing"

\* an initialize that refuses an id that has a record
RaisedOnExisting(st, context) ==
    IF context.action = "initialize"
    THEN IF InitializeRejected(context) THEN Some("required")
         ELSE IF loadProgress(st, context.workflowId) # <<>> THEN Some("exists")
         ELSE IF WriteFails THEN Some("write failed") ELSE Absent
    ELSE IF loadProgress(st, context.workflowId) = <<>> THEN Some("No progress found")
         ELSE IF context.action \in {"update", "complete", "fail"} /\ WriteFails
              THEN Some("write failed") ELSE Absent

\* the Error thrown inside the try block of execute, if any
Raised(st, context) ==
    IF context.action = "initialize"
    THEN IF InitializeRejected(context) THEN Some("required")
         ELSE IF WriteFails THEN Some("write failed") ELSE Absent
    ELSE IF loadProgress(st, context.workflowId) = <<>> THEN Some("No progress found")
         ELSE IF context.action \in {"update", "complete", "fail"} /\ WriteFails
              THEN Some("write failed") ELSE Absent

\* the catch block of execute: it returns, nothing leaves execute as an
\* exception
Rethrown(error) == Absent

\* execute: the store after the call, the `success` flag it returns and the
\* exception that leaves it; every error raised inside is caught and turned
\* into success = false
ToolExecute(st, context) ==
    IF Raised(st, context) # Absent
    THEN [store |-> st, success |-> FALSE, thrown |-> Rethrown(Raised(st, context))]
    ELSE IF context.action = "initialize"
    THEN [store |-> saveProgress(st, context.workflowId, NewProgress(context)),
          success |-> TRUE, thrown |-> Absent]
    ELSE LET progress == loadProgress(st, context.workflowId)[1]
         IN  CASE context.action = "update" ->
                    [store |-> saveProgress(st, context.workflowId,
                                            UpdateRecord(progress, context)),
                     success |-> TRUE, thrown |-> Absent]
               [] context.action = "complete" ->
                    [store |-> saveProgress(st, context.workflowId,
                                            CompleteRecord(progress)),
                     success |-> TRUE, thrown |-> Absent]
               [] context.action = "fail" ->
                    [store |-> saveProgress(st, context.workflowId,
                                            FailRecord(progress, context)),
                     success |-> TRUE, thrown |-> Absent]
               [] OTHER -> [store |-> st, success |-> TRUE, thrown |-> Absent]

----------------------------------------------------------------------------
(* parseOutlineIntoChapters *)

\* A trimmed line of the outline text, by what the two regular expressions
\* make of it: chapterMatch is absent (null) or the two captures (the digits
\* and the title) of the chapter pattern, sectionMatch is absent or the title
\* captured by the section pattern, startsWithDash is startsWith('-').
\* "chapter" lines match the chapter pattern only, "section" lines the
\* section pattern only, "other" lines neither.
LineKinds == {"chapter", "section", "other"}

OutlineOf(kinds) ==
    [i \in 1..Len(kinds) |->
        [chapterMatch |-> IF kinds[i] = "chapter"
                          THEN Some([number |-> i, title |-> "T" \o ToString(i)])
                          ELSE Absent,
         startsWithDash |-> kinds[i] = "section",
         sectionMatch |-> IF kinds[i] = "section"
                          THEN Some("T" \o ToString(i)) ELSE Absent]]

Outlines == {OutlineOf(kinds) : kinds \in UNION {[1..n -> LineKinds] : n \in 0..MaxLines}}

estimatedChapters == 10

FallbackChapters == 8

FallbackSections ==
    <<"Introduction", "Core Concepts", "Practical Examples", "Advanced Topics", "Summary">>

\* let chapterNumber = 1
FirstChapterNumberCarried == parseCalls + 1

FirstChapterNumber == 1

NewChapterUnnumbered(number, title, wordsPerChapter) ==
    [number |-> FirstChapterNumber, title |-> title, sections |-> <<>>,
     targetWordCount |-> wordsPerChapter]

NewChapter(number, title, wordsPerChapter) ==
    [number |-> number, title |-> title, sections |-> <<>>,
     targetWordCount |-> wordsPerChapter]

\* the `for (const line of lines)` loop from line i on; currentChapter is <<>>
\* (null) or <<chapter>>; the two `if`s of the body are evaluated one after
\* the other
RECURSIVE ParseLines(_, _, _, _, _, _)
ParseLines(lines, i, parsed, currentChapter, chapterNumber, wordsPerChapter) ==
    IF i > Len(lines)
    THEN parsed \o currentChapter
    ELSE LET line == lines[i]
             opens == line.chapterMatch # Absent /\ ~line.startsWithDash
             opened == IF opens
                       THEN <<NewChapter(chapterNumber, line.chapterMatch[1].title,
                                         wordsPerChapter)>>
                       ELSE currentChapter
             extended == IF line.sectionMatch # Absent /\ opened # <<>>
                         THEN <<[opened[1] EXCEPT
                                   !.sections = Append(@, line.sectionMatch[1])]>>
                         ELSE opened
         IN  ParseLines(lines, i + 1,
                        IF opens THEN parsed \o currentChapter ELSE parsed,
                        extended,
                        IF opens THEN chapterNumber + 1 ELSE chapterNumber,
                        wordsPerChapter)

DefaultStructureOfEstimate(wordsPerChapter) ==
    [i \in 1..estimatedChapters |->
        [number |-> i, title |-> "Chapter " \o ToString(i),
         sections |-> FallbackSections, targetWordCount |-> wordsPerChapter]]

DefaultStructure(wordsPerChapter) ==
    [i \in 1..FallbackChapters |->
        [number |-> i, title |-> "Chapter " \o ToString(i),
         sections |-> FallbackSections, targetWordCount |-> wordsPerChapter]]

\* the words shared out over the chapters found
parseOutlineDividingByFound(outlineText, targetWordCount) ==
    LET found == Len(ParseLines(outlineText, 1, <<>>, <<>>, FirstChapterNumber, 0))
        wordsPerChapter == targetWordCount \div (IF found = 0 THEN FallbackChapters ELSE found)
        parsed == ParseLines(outlineText, 1, <<>>, <<>>, FirstChapterNumber, wordsPerChapter)
    IN  IF Len(parsed) = 0 THEN DefaultStructure(wordsPerChapter) ELSE parsed

parseOutlineIntoChapters(outlineText, targetWordCount) ==
    LET wordsPerChapter == targetWordCount \div estimatedChapters
        parsed == ParseLines(outlineText, 1, <<>>, <<>>, FirstChapterNumber, wordsPerChapter)
    IN  IF Len(parsed) = 0 THEN DefaultStructure(wordsPerChapter) ELSE parsed

SumSectionsCountingChapters(chs) == Len(chs)

RECURSIVE SumSections(_)
SumSections(chs) ==
    IF chs = <<>> THEN 0 ELSE Len(Head(chs).sections) + SumSections(Tail(chs))

----------------------------------------------------------------------------
(* generateContentChunk *)

\* texts the writing capability returns: characters are a letter or a blank
WordCount(text) ==
    Cardinality({i \in 1..Len(text) : text[i] = " " /\ (i = 1 \/ text[i - 1] # " ")}) + 1

Writers == {"short", "long", "padded", "mixed"}

\* the text the writing capability returns for a section in this run
ResponseText(w, chapterNumber, index) ==
    CASE w = "short" -> <<"w">>
      [] w = "long" -> <<"w", " ", "w", " ", "w">>
      [] w = "padded" -> <<" ", "w", " ", " ", "w">>
      [] OTHER -> IF (chapterNumber + index) % 2 = 0 THEN <<>> ELSE <<"w", " ", "w">>

retryAttempts == 3

BackoffBase == 1000

BackoffCap == 30000

RECURSIVE Pow2(_)
Pow2(n) == IF n <= 0 THEN 1 ELSE 2 * Pow2(n - 1)

Min(a, b) == IF a <= b THEN a ELSE b

backoffMsFromSecond(k) == Min(BackoffBase * Pow2(k), BackoffCap)

backoffMs(k) == Min(BackoffBase * Pow2(k - 1), BackoffCap)

----------------------------------------------------------------------------
(* improvedEducationalContentWorkflow *)

\* .then(initializeAndPlanStep).then(generateAllContentStep)
\* .then(reviewContentStep).then(generateFinalPDFStep)
ThenSkipsGenerate(stage) ==
    CASE stage = "PLAN" -> "REVIEW"
      [] stage = "GENERATE" -> "REVIEW"
      [] stage = "REVIEW" -> "PUBLISH"
      [] OTHER -> "END"

Then(stage) ==
    CASE stage = "PLAN" -> "GENERATE"
      [] stage = "GENERATE" -> "REVIEW"
      [] stage = "REVIEW" -> "PUBLISH"
      [] OTHER -> "END"

\* an exception leaves a step: the engine ends the run, no later step starts
OnThrow(stage) == "failed"

\* position at which a step starts
EntryOf(stage) ==
    CASE stage = "PLAN" -> "plan"
      [] stage = "GENERATE" -> "chapter"
      [] stage = "REVIEW" -> "review"
      [] stage = "PUBLISH" -> "publish"
      [] OTHER -> "done"

Call(context, r) == [action |-> context.action, success |-> r.success]

Throw(stage, error) == <<[stage |-> stage, error |-> error]>>

Topics == {"X"}

TargetWordCounts == {1000, 20}

Init ==
    /\ store = [id \in RunIds |-> <<>>]
    /\ pc = "idle"
    /\ inputData \in [topic : Topics, targetWordCount : TargetWordCounts]
    /\ writer \in Writers
    /\ workflowId = ""
    /\ chapters = <<>>
    /\ totalSections = 0
    /\ progressInitialized = FALSE
    /\ chapterIdx = 1
    /\ sectionIndex = 0
    /\ attempt = 0
    /\ waits = <<>>
    /\ inFlight = {}
    /\ generatedChapters = <<>>
    /\ chapterSections = <<>>
    /\ chapterWordCount = 0
    /\ totalWordCount = 0
    /\ completedSections = 0
    /\ review = <<>>
    /\ result = <<>>
    /\ thrown = <<>>
    /\ renderCalls = 0
    /\ storeCalls = <<>>
    /\ stageLog = <<>>
    /\ lastCall = <<>>
    /\ config = <<>>
    /\ chunkPc = "idle"
    /\ chunkAttempt = 0
    /\ chunkWaits = <<>>
    /\ chunkErrors = <<>>
    /\ invocations = 0
    /\ chunkResult = <<>>
    /\ reviewed = <<>>
    /\ firstParse = <<>>
    /\ reparse = <<>>
    /\ parseCalls = 0
    /\ disk = "ok"
    /\ otherCompleted = <<>>
    /\ writing = <<>>
    /\ observed = <<>>
    /\ client = [pc |-> "idle", attempt |-> 0, requests |-> 0, responses |-> <<>>,
                 lastError |-> Absent, isGenerating |-> FALSE, errorMessage |-> Absent,
                 showProgress |-> FALSE, currentWorkflowId |-> Absent]

\* the trigger starts the run: initialize-and-plan generates the id and awaits
\* the outline
Start ==
    /\ pc = "idle"
    /\ \E id \in RunIds : workflowId' = id
    /\ pc' = EntryOf("PLAN")
    /\ stageLog' = Append(stageLog, "PLAN")
    /\ UNCHANGED <<storeVars, inputVars, chapters, totalSections, progressInitialized,
                   genVars, callVars, endVars, storeCalls>>

\* ideaGenerationAgent.generate returns: parse, initialize, return
PlanReturns ==
    /\ pc = "plan"
    /\ \E outlineText \in Outlines :
         LET parsed == parseOutlineIntoChapters(outlineText, inputData.targetWordCount)
             total == SumSections(parsed)
             context == [Context("initialize", workflowId) EXCEPT
                            !.topic = Some(inputData.topic),
                            !.totalChapters = Some(Len(parsed)),
                            !.totalSections = Some(total),
                            !.targetWordCount = Some(inputData.targetWordCount)]
             r == ToolExecute(store, context)
         IN  /\ chapters' = parsed
             /\ totalSections' = total
             /\ store' = r.store
             /\ progressInitialized' = r.success
             /\ storeCalls' = Append(storeCalls, Call(context, r))
    /\ pc' = EntryOf(Then("PLAN"))
    /\ stageLog' = Append(stageLog, Then("PLAN"))
    /\ UNCHANGED <<inputVars, workflowId, genVars, callVars, endVars>>

\* ideaGenerationAgent.generate throws: nothing catches it
PlanThrows ==
    /\ pc = "plan"
    /\ thrown' = Throw("PLAN", "outline")
    /\ pc' = OnThrow("PLAN")
    /\ UNCHANGED <<storeVars, inputVars, planVars, genVars, callVars,
                   review, result, renderCalls, logVars>>

chapter == chapters[chapterIdx]

\* top of the chapter loop: the progress update, then the section loop starts
ChapterStart ==
    /\ pc = "chapter"
    /\ LET context == [Context("update", workflowId) EXCEPT
                          !.currentStep = Some(StepLabel("Generating Chapter", chapter.number)),
                          !.completedSections = Some(completedSections)]
           r == ToolExecute(store, context)
       IN  /\ store' = r.store
           /\ storeCalls' = Append(storeCalls, Call(context, r))
    /\ chapterSections' = <<>>
    /\ chapterWordCount' = 0
    /\ sectionIndex' = 0
    /\ pc' = IF 0 < Len(chapter.sections) THEN "section" ELSE "chapter_end"
    /\ UNCHANGED <<inputVars, planVars, chapterIdx, generatedChapters, totalWordCount,
                   completedSections, callVars, endVars, stageLog>>

\* the writingAgent.generate call of attempt k for the current section
IssuedCallsParallel(k) ==
    {<<chapter.number, index, k>> : index \in 0..(Len(chapter.sections) - 1)}

IssuedCalls(k) == {<<chapter.number, sectionIndex, k>>}

\* chunkedContentGenerationTool.execute: the first attempt's call goes out
SectionCall ==
    /\ pc = "section"
    /\ attempt' = 1
    /\ waits' = <<>>
    /\ inFlight' = inFlight \cup IssuedCalls(1)
    /\ pc' = "awaiting"
    /\ UNCHANGED <<storeVars, inputVars, planVars, genVars, endVars, logVars>>

\* where the section loop goes after an iteration
AfterSection(index) ==
    IF index < Len(chapter.sections) THEN "section" ELSE "chapter_end"

\* the words of the current chapter only
WordsOfChapter(total, chapterWords) == chapterWords

\* totalWordCount + chapterWordCount, the value sent after a section
WordsSoFar(total, chapterWords) == total + chapterWords

\* writingAgent.generate returns: the tool returns, the section is recorded
AttemptReturns ==
    /\ pc = "awaiting"
    /\ LET response == ResponseText(writer, chapter.number, sectionIndex)
           wordCount == WordCount(response)
           context == [Context("update", workflowId) EXCEPT
                          !.completedSections = Some(completedSections + 1),
                          !.totalWordsGenerated =
                              Some(WordsSoFar(totalWordCount, chapterWordCount + wordCount))]
           r == ToolExecute(store, context)
       IN  /\ chapterSections' = Append(chapterSections,
                                        [title |-> chapter.sections[sectionIndex + 1],
                                         wordCount |-> wordCount])
           /\ chapterWordCount' = chapterWordCount + wordCount
           /\ completedSections' = completedSections + 1
           /\ store' = r.store
           /\ storeCalls' = Append(storeCalls, Call(context, r))
    /\ inFlight' = {}
    /\ attempt' = 0
    /\ waits' = <<>>
    /\ sectionIndex' = sectionIndex + 1
    /\ pc' = AfterSection(sectionIndex + 1)
    /\ UNCHANGED <<inputVars, planVars, chapterIdx, generatedChapters, totalWordCount,
                   endVars, stageLog>>

\* the store call of the section catch block
SectionFailureCallUntitled(error) ==
    [Context("update", workflowId) EXCEPT !.error = Some(Message(error.text, ""))]

SectionFailureCall(error) ==
    [Context("update", workflowId) EXCEPT !.error = Some(error)]

\* where the section loop goes when the tool has thrown: the catch block
\* rethrows, which leaves both loops and the step
AfterSectionFailureContinues(index) ==
    IF index + 1 < Len(chapter.sections) THEN "section" ELSE "chapter_end"

AfterSectionFailureRetriesSection(index) == "section"

AfterSectionFailure(index) == OnThrow("GENERATE")

\* writingAgent.generate throws on the last attempt: the tool throws, the
\* workflow's catch block records the error and rethrows
AttemptExhausted ==
    /\ pc = "awaiting"
    /\ attempt = retryAttempts
    /\ LET sectionTitle == chapter.sections[sectionIndex + 1]
           context == SectionFailureCall(Message("Failed to generate section", sectionTitle))
           r == ToolExecute(store, context)
       IN  /\ store' = r.store
           /\ storeCalls' = Append(storeCalls, Call(context, r))
           /\ thrown' = Throw("GENERATE", sectionTitle)
    /\ inFlight' = {}
    /\ pc' = AfterSectionFailure(sectionIndex)
    /\ UNCHANGED <<inputVars, planVars, genVars, attempt, waits,
                   review, result, renderCalls, stageLog>>

\* writingAgent.generate throws on an earlier attempt: back off
AttemptFails ==
    /\ pc = "awaiting"
    /\ attempt < retryAttempts
    /\ inFlight' = {}
    /\ waits' = Append(waits, backoffMs(attempt))
    /\ pc' = "backoff"
    /\ UNCHANGED <<storeVars, inputVars, planVars, genVars, attempt, endVars, logVars>>

\* the backoff timer fires: the next attempt's call goes out
BackoffElapsed ==
    /\ pc = "backoff"
    /\ attempt' = attempt + 1
    /\ inFlight' = inFlight \cup IssuedCalls(attempt + 1)
    /\ pc' = "awaiting"
    /\ UNCHANGED <<storeVars, inputVars, planVars, genVars, waits, endVars, logVars>>

\* after the section loop: the chapter is pushed and reported; after the last
\* chapter the step returns
ChapterEnd ==
    /\ pc = "chapter_end"
    /\ LET context == [Context("update", workflowId) EXCEPT
                          !.completedChapters = Some(Len(generatedChapters) + 1),
                          !.totalWordsGenerated = Some(totalWordCount + chapterWordCount),
                          !.chapterCompleted =
                              Some([chapterNumber |-> chapter.number,
                                    title |-> chapter.title,
                                    wordCount |-> chapterWordCount])]
           r == ToolExecute(store, context)
       IN  /\ store' = r.store
           /\ storeCalls' = Append(storeCalls, Call(context, r))
    /\ generatedChapters' = Append(generatedChapters,
                                   [number |-> chapter.number, title |-> chapter.title,
                                    wordCount |-> chapterWordCount,
                                    sections |-> chapterSections])
    /\ totalWordCount' = totalWordCount + chapterWordCount
    /\ chapterIdx' = chapterIdx + 1
    /\ IF chapterIdx < Len(chapters)
       THEN pc' = "chapter" /\ stageLog' = stageLog
       ELSE pc' = EntryOf(Then("GENERATE")) /\ stageLog' = Append(stageLog, Then("GENERATE"))
    /\ UNCHANGED <<inputVars, planVars, sectionIndex, chapterSections, chapterWordCount,
                   completedSections, callVars, endVars>>

----------------------------------------------------------------------------
(* review-content-improved and generate-final-pdf *)

\* A review text, by what the step reads in it: the number after "quality
\* score" (in tenths; absent when the pattern does not match) and whether it
\* contains "not approved" / "needs major revision"
ReviewScores == {65, 70, 90}

ReviewTexts ==
    [score : {Absent} \cup {Some(n) : n \in ReviewScores},
     notApproved : BOOLEAN, needsMajorRevision : BOOLEAN]

DefaultScore == 75

ApprovalThreshold == 70

qualityScore(reviewText) ==
    IF reviewText.score # Absent THEN reviewText.score[1] ELSE DefaultScore

approvedForPublicationAboveThreshold(reviewText) ==
    /\ qualityScore(reviewText) > ApprovalThreshold
    /\ ~reviewText.notApproved
    /\ ~reviewText.needsMajorRevision

approvedForPublication(reviewText) ==
    /\ qualityScore(reviewText) >= ApprovalThreshold
    /\ ~reviewText.notApproved
    /\ ~reviewText.needsMajorRevision

\* the progress update, then reviewAgent.generate is awaited
ReviewStart ==
    /\ pc = "review"
    /\ LET context == [Context("update", workflowId) EXCEPT
                          !.currentStep = Some(StepLabel("Reviewing generated content", 0))]
           r == ToolExecute(store, context)
       IN  /\ store' = r.store
           /\ storeCalls' = Append(storeCalls, Call(context, r))
    /\ pc' = "reviewing"
    /\ UNCHANGED <<inputVars, planVars, genVars, callVars, endVars, stageLog>>

ReviewReturns ==
    /\ pc = "reviewing"
    /\ \E reviewText \in ReviewTexts :
         review' = <<[qualityScore |-> qualityScore(reviewText),
                      approvedForPublication |-> approvedForPublication(reviewText),
                      reviewSummary |-> reviewText,
                      finalWordCount |-> totalWordCount]>>
    /\ pc' = EntryOf(Then("REVIEW"))
    /\ stageLog' = Append(stageLog, Then("REVIEW"))
    /\ UNCHANGED <<storeVars, inputVars, planVars, genVars, callVars,
                   result, thrown, renderCalls, storeCalls>>

\* reviewAgent.generate throws: nothing catches it
ReviewThrows ==
    /\ pc = "reviewing"
    /\ thrown' = Throw("REVIEW", "review")
    /\ pc' = OnThrow("REVIEW")
    /\ UNCHANGED <<storeVars, inputVars, planVars, genVars, callVars,
                   review, result, renderCalls, logVars>>

\* the store call of the not-approved path
RejectedCallCompletes(score) == Context("complete", workflowId)

RejectedCall(score) ==
    [Context("fail", workflowId) EXCEPT
        !.error = Some(Message("Content not approved for publication (quality score)", score))]

\* the store call of the rendering catch block
RenderFailedCall(error) ==
    [Context("fail", workflowId) EXCEPT
        !.error = Some(Message("PDF generation failed", error))]

\* the progress update; then the rejected path (fail, return) or the
\* rendering call goes out
PublishStart ==
    /\ pc = "publish"
    /\ LET update == [Context("update", workflowId) EXCEPT
                         !.currentStep = Some(StepLabel("Generating final PDF", 0))]
           r1 == ToolExecute(store, update)
           fail == RejectedCall(review[1].qualityScore)
           r2 == ToolExecute(r1.store, fail)
       IN  IF ~review[1].approvedForPublication
           THEN /\ store' = r2.store
                /\ storeCalls' = storeCalls \o <<Call(update, r1), Call(fail, r2)>>
                /\ result' = <<[bookGenerated |-> FALSE, bookPath |-> Absent,
                                fileSize |-> Absent,
                                finalWordCount |-> review[1].finalWordCount,
                                qualityScore |-> review[1].qualityScore]>>
                /\ renderCalls' = renderCalls
                /\ pc' = "done"
                /\ stageLog' = Append(stageLog, Then("PUBLISH"))
           ELSE /\ store' = r1.store
                /\ storeCalls' = Append(storeCalls, Call(update, r1))
                /\ result' = result
                /\ renderCalls' = renderCalls + 1
                /\ pc' = "rendering"
                /\ stageLog' = stageLog
    /\ UNCHANGED <<inputVars, planVars, genVars, callVars, review, thrown>>

\* pdfGenerationTool.execute returns: complete, return the book
RenderReturns ==
    /\ pc = "rendering"
    /\ LET context == Context("complete", workflowId)
           r == ToolExecute(store, context)
       IN  /\ store' = r.store
           /\ storeCalls' = Append(storeCalls, Call(context, r))
    /\ result' = <<[bookGenerated |-> TRUE, bookPath |-> Some("path"),
                    fileSize |-> Some("size"),
                    finalWordCount |-> review[1].finalWordCount,
                    qualityScore |-> review[1].qualityScore]>>
    /\ pc' = "done"
    /\ stageLog' = Append(stageLog, Then("PUBLISH"))
    /\ UNCHANGED <<inputVars, planVars, genVars, callVars, review, thrown, renderCalls>>

\* pdfGenerationTool.execute throws: the catch block fails the run and rethrows
RenderThrows ==
    /\ pc = "rendering"
    /\ LET context == RenderFailedCall("render")
           r == ToolExecute(store, context)
       IN  /\ store' = r.store
           /\ storeCalls' = Append(storeCalls, Call(context, r))
    /\ thrown' = Throw("PUBLISH", "render")
    /\ pc' = OnThrow("PUBLISH")
    /\ UNCHANGED <<inputVars, planVars, genVars, callVars, review, result,
                   renderCalls, stageLog>>

Next ==
    \/ Start
    \/ PlanReturns
    \/ PlanThrows
    \/ ChapterStart
    \/ SectionCall
    \/ AttemptReturns
    \/ AttemptExhausted
    \/ AttemptFails
    \/ BackoffElapsed
    \/ ChapterEnd
    \/ ReviewStart
    \/ ReviewReturns
    \/ ReviewThrows
    \/ PublishStart
    \/ RenderReturns
    \/ RenderThrows

Spec == Init /\ [][Next]_vars

----------------------------------------------------------------------------
(* The tool called directly (a monitor, an API route, a test): any action,  *)
(* any supplied fields                                                      *)

StepOptions == {Absent, Some(StepLabel("", 0)), Some(StepLabel("Reviewing generated content", 0))}

CountOptions == {Absent, Some(0), Some(1)}

ErrorOptions == {Absent, Some(EmptyString), Some(Message("boom", ""))}

DetailOptions == {Absent, Some([chapterNumber |-> 1, title |-> "T1", wordCount |-> 1])}

InitializeContexts(id) ==
    {[Context("initialize", id) EXCEPT
         !.topic = Some(topic), !.totalChapters = Some(tc),
         !.totalSections = Some(ts), !.targetWordCount = Some(target)] :
       topic \in {"", "X"}, tc \in {0, 1}, ts \in {0, 1}, target \in {0, 1000}}

UpdateContexts(id) ==
    {[Context("update", id) EXCEPT
         !.currentStep = step, !.completedChapters = cc, !.completedSections = cs,
         !.totalWordsGenerated = tw, !.error = error, !.chapterCompleted = detail] :
       step \in StepOptions, cc \in CountOptions, cs \in CountOptions,
       tw \in CountOptions, error \in ErrorOptions, detail \in DetailOptions}

FailContexts(id) == {[Context("fail", id) EXCEPT !.error = error] : error \in ErrorOptions}

\* the lists stay within the model's bound
WithinLog(st, id) ==
    st[id] # <<>> =>
        /\ Len(st[id][1].errors) <= MaxLog
        /\ Len(st[id][1].completedChapterDetails) <= MaxLog

Direct(context) ==
    LET r == ToolExecute(store, context)
    IN  /\ WithinLog(r.store, context.workflowId)
        /\ store' = r.store
        /\ lastCall' = <<[action |-> context.action, success |-> r.success,
                           thrown |-> r.thrown]>>

DirectInitialize ==
    /\ \E id \in StoreIds : \E context \in InitializeContexts(id) : Direct(context)
    /\ UNCHANGED runVars

DirectUpdate ==
    /\ \E id \in StoreIds : \E context \in UpdateContexts(id) : Direct(context)
    /\ UNCHANGED runVars

DirectGet ==
    /\ \E id \in StoreIds : Direct(Context("get", id))
    /\ UNCHANGED runVars

DirectComplete ==
    /\ \E id \in StoreIds : Direct(Context("complete", id))
    /\ UNCHANGED runVars

DirectFail ==
    /\ \E id \in StoreIds : \E context \in FailContexts(id) : Direct(context)
    /\ UNCHANGED runVars

NextStore ==
    \/ DirectInitialize
    \/ DirectUpdate
    \/ DirectGet
    \/ DirectComplete
    \/ DirectFail

InitStore == Init /\ writer = "short" /\ inputData.targetWordCount = 1000

SpecStore == InitStore /\ [][NextStore]_vars

\* the run when every awaited call (outline, section generation, review,
\* rendering, the back-off timer) settles in finite time: the step that waits
\* for it is eventually taken
SpecLive == InitStore /\ [][Next]_vars /\ WF_vars(Next)

----------------------------------------------------------------------------
(* generateContentChunk called on its own, with any retryAttempts            *)

\* largest retryAttempts a caller passes
MaxRetries == 7
\* longest text the writing capability returns, in characters
MaxText == 3

SectionTitles == {"T1", "T2"}

RetryOptions == {Absent} \cup {Some(n) : n \in (-1)..MaxRetries}

ErrorMessages == {"timeout", "rate limit"}

Texts == UNION {[1..n -> {"w", " "}] : n \in 0..MaxText}

DefaultRetryAttempts == 3

\* const maxRetries = config.retryAttempts || 3
maxRetriesPlusOne(cfg) ==
    (IF TruthyNumber(cfg.retryAttempts) THEN cfg.retryAttempts[1]
                                        ELSE DefaultRetryAttempts) + 1

maxRetries(cfg) ==
    IF TruthyNumber(cfg.retryAttempts) THEN cfg.retryAttempts[1] ELSE DefaultRetryAttempts

\* the Error thrown from the catch block on the last attempt
ExhaustedError(title, attempts, message) ==
    [text |-> "Failed to generate content for section", sectionTitle |-> title,
     attempts |-> Some(attempts), message |-> Some(message)]

\* the Error thrown after the loop
LoopEndError(title) ==
    [text |-> "Failed to generate content for section", sectionTitle |-> title,
     attempts |-> Absent, message |-> Absent]

Returned(chunk) == <<[kind |-> "returned", chunk |-> chunk]>>

Thrown(error) == <<[kind |-> "thrown", error |-> error]>>

\* the call starts: the loop is entered and the first attempt's call goes
\* out, or the loop condition fails at once
ChunkExecute ==
    /\ chunkPc = "idle"
    /\ \E retries \in RetryOptions, title \in SectionTitles :
         LET cfg == [retryAttempts |-> retries, sectionTitle |-> title]
         IN  /\ config' = <<cfg>>
             /\ IF 1 <= maxRetries(cfg)
                THEN /\ chunkPc' = "generating"
                     /\ invocations' = 1
                     /\ chunkResult' = <<>>
                ELSE /\ chunkPc' = "thrown"
                     /\ invocations' = 0
                     /\ chunkResult' = Thrown(LoopEndError(title))
    /\ chunkAttempt' = 1
    /\ UNCHANGED <<chunkWaits, chunkErrors, storeVars, workflowVars, lastCall, gateVars,
                   parseVars, diskVars, otherVars, monitorVars, clientVars>>

\* writingAgent.generate returns: the chunk is returned
GenerateReturns ==
    /\ chunkPc = "generating"
    /\ \E response \in Texts :
         chunkResult' = Returned([sectionTitle |-> config[1].sectionTitle,
                                  content |-> response,
                                  wordCount |-> WordCount(response)])
    /\ chunkPc' = "returned"
    /\ UNCHANGED <<config, chunkAttempt, chunkWaits, chunkErrors, invocations,
                   storeVars, workflowVars, lastCall, gateVars,
                   parseVars, diskVars, otherVars, monitorVars, clientVars>>

\* writingAgent.generate throws: on the last attempt the catch block throws,
\* otherwise it starts the backoff wait
GenerateThrows ==
    /\ chunkPc = "generating"
    /\ \E message \in ErrorMessages :
         /\ chunkErrors' = Append(chunkErrors, message)
         /\ IF chunkAttempt = maxRetries(config[1])
            THEN /\ chunkResult' = Thrown(ExhaustedError(config[1].sectionTitle,
                                                         maxRetries(config[1]), message))
                 /\ chunkPc' = "thrown"
                 /\ chunkWaits' = chunkWaits
            ELSE /\ chunkResult' = chunkResult
                 /\ chunkPc' = "waiting"
                 /\ chunkWaits' = Append(chunkWaits, backoffMs(chunkAttempt))
    /\ UNCHANGED <<config, chunkAttempt, invocations,
                   storeVars, workflowVars, lastCall, gateVars,
                   parseVars, diskVars, otherVars, monitorVars, clientVars>>

\* the setTimeout fires: attempt++, then the loop condition
BackoffTimer ==
    /\ chunkPc = "waiting"
    /\ chunkAttempt' = chunkAttempt + 1
    /\ IF chunkAttempt + 1 <= maxRetries(config[1])
       THEN /\ chunkPc' = "generating"
            /\ invocations' = invocations + 1
            /\ chunkResult' = chunkResult
       ELSE /\ chunkPc' = "thrown"
            /\ invocations' = invocations
            /\ chunkResult' = Thrown(LoopEndError(config[1].sectionTitle))
    /\ UNCHANGED <<config, chunkWaits, chunkErrors,
                   storeVars, workflowVars, lastCall, gateVars,
                   parseVars, diskVars, otherVars, monitorVars, clientVars>>

NextChunk ==
    \/ ChunkExecute
    \/ GenerateReturns
    \/ GenerateThrows
    \/ BackoffTimer

SpecChunk == InitStore /\ [][NextChunk]_vars

----------------------------------------------------------------------------
(* The review step's reading of the review text                              *)

\* longest review text, in tokens
MaxTokens == 3

\* A review text is a sequence of tokens: the words "quality score", a
\* separator (":" or whitespace), a decimal numeral (its value in tenths),
\* the phrase "not approved", the phrase "needs major revision", or other
\* words; the words and phrases are written in lower case or not
Tokens ==
    [kind : {"quality score", "not approved", "needs major revision"},
     lower : BOOLEAN, tenths : {0}]
    \cup [kind : {"separator", "words"}, lower : {TRUE}, tenths : {0}]
    \cup [kind : {"numeral"}, lower : {TRUE}, tenths : ReviewScores]

TokenTexts == UNION {[1..n -> Tokens] : n \in 0..MaxTokens}

\* String.prototype.toLowerCase
toLowerCase(text) == [i \in 1..Len(text) |-> [text[i] EXCEPT !.lower = TRUE]]

\* String.prototype.includes, for one of the (lower-case) phrases
includes(text, phrase) ==
    \E i \in 1..Len(text) : text[i] = [kind |-> phrase, lower |-> TRUE, tenths |-> 0]

\* [:\s]* from position i: the position of the first token that is no separator
RECURSIVE SkipSeparators(_, _)
SkipSeparators(text, i) ==
    IF i <= Len(text) /\ text[i].kind = "separator"
    THEN SkipSeparators(text, i + 1) ELSE i

\* /quality score[:\s]*(\d+(?:\.\d+)?)/i matches at position i
MatchesAt(text, i) ==
    /\ text[i].kind = "quality score"
    /\ SkipSeparators(text, i + 1) <= Len(text)
    /\ text[SkipSeparators(text, i + 1)].kind = "numeral"

\* reviewText.match(...): absent (null), or the first match's captured numeral
scoreMatch(text) ==
    LET matches == {i \in 1..Len(text) : MatchesAt(text, i)}
        first == CHOOSE i \in matches : \A j \in matches : i <= j
    IN  IF matches = {} THEN Absent
        ELSE Some(text[SkipSeparators(text, first + 1)].tenths)

\* what the step reads in the text
Reading(text) ==
    [score |-> scoreMatch(text),
     notApproved |-> includes(toLowerCase(text), "not approved"),
     needsMajorRevision |-> includes(toLowerCase(text), "needs major revision")]

\* reviewAgent.generate returns a text: score and approval are computed
ReviewDecides ==
    /\ reviewed = <<>>
    /\ \E reviewText \in TokenTexts :
         reviewed' = <<[reviewText |-> reviewText,
                        qualityScore |-> qualityScore(Reading(reviewText)),
                        approvedForPublication |->
                            approvedForPublication(Reading(reviewText))]>>
    /\ UNCHANGED <<storeVars, workflowVars, lastCall, chunkVars,
                   parseVars, diskVars, otherVars, monitorVars, clientVars>>

NextGate == ReviewDecides

SpecGate == InitStore /\ [][NextGate]_vars

----------------------------------------------------------------------------
(* parseOutlineIntoChapters called on its own, on outline texts              *)

\* calls of the parser in one behaviour
MaxCalls == 3

\* A line of text, already trimmed, as the pieces the two patterns look at,
\* in the order they stand on the line: a bullet marker ("-" or the bullet
\* character), the word "Chapter", digits, a separator (":"), a
\* "Section 1.1:" label, and other text.  Absent pieces are "" / FALSE / Absent.
RawLine(bullet, keyword, number, separator, label, text) ==
    [bullet |-> bullet, keyword |-> keyword, number |-> number,
     separator |-> separator, label |-> label, text |-> text]

RawLines ==
    {RawLine("", TRUE, Some(1), TRUE, FALSE, "A"),      \* Chapter 1: A
     RawLine("", FALSE, Some(3), TRUE, FALSE, "B"),     \* 3: B
     RawLine("-", FALSE, Absent, FALSE, FALSE, "S"),    \* - S
     RawLine("*", FALSE, Absent, FALSE, TRUE, "U"),     \* (bullet) Section 1.1: U
     RawLine("-", FALSE, Some(1), TRUE, FALSE, "A"),    \* - 1: A
     RawLine("", TRUE, Absent, FALSE, FALSE, "A"),      \* Chapter A
     RawLine("", FALSE, Absent, FALSE, FALSE, "")}      \* (blank)

RawTexts == UNION {[1..n -> RawLines] : n \in 0..MaxLines}

\* texts of the calls made between two calls with the same arguments: the
\* empty text and "Chapter 1: A"
OtherTexts == {<<>>, <<RawLine("", TRUE, Some(1), TRUE, FALSE, "A")>>}

ParseTargets == {1000, 1005, 9}

\* two pieces of a line, with the blank between them when both are there
Join(a, b) == IF a = "" THEN b ELSE IF b = "" THEN a ELSE a \o " " \o b

LabelText(raw) == IF raw.label THEN "Section 1.1:" ELSE ""

NumberText(raw) ==
    (IF raw.number # Absent THEN ToString(raw.number[1]) ELSE "")
        \o (IF raw.separator THEN ":" ELSE "")

\* the line from the label on, and the line after the bullet marker
FromLabel(raw) == Join(LabelText(raw), raw.text)

AfterBullet(raw) ==
    Join(Join(IF raw.keyword THEN "Chapter" ELSE "", NumberText(raw)), FromLabel(raw))

\* trimmedLine.match(/^(?:Chapter\s+)?(\d+)[:\.\s]+(.+)$/i)
chapterMatch(raw) ==
    IF raw.bullet = "" /\ raw.number # Absent /\ raw.separator /\ FromLabel(raw) # ""
    THEN Some([number |-> raw.number[1], title |-> FromLabel(raw)])
    ELSE Absent

\* a pattern whose marker class holds "-" only
sectionMatchDashOnly(raw) ==
    IF raw.bullet # "-" \/ AfterBullet(raw) = ""
    THEN Absent
    ELSE IF ~raw.keyword /\ NumberText(raw) = "" /\ raw.label /\ raw.text # ""
         THEN Some(raw.text)
         ELSE Some(AfterBullet(raw))

\* trimmedLine.match(/^[-(bullet)]\s*(?:Section\s+\d+\.\d+:\s*)?(.+)$/): the
\* label is stripped when it comes first and text follows it
sectionMatch(raw) ==
    IF raw.bullet = "" \/ AfterBullet(raw) = ""
    THEN Absent
    ELSE IF ~raw.keyword /\ NumberText(raw) = "" /\ raw.label /\ raw.text # ""
         THEN Some(raw.text)
         ELSE Some(AfterBullet(raw))

\* what the loop body computes for each line of the text
Matched(text) ==
    [i \in 1..Len(text) |->
        [chapterMatch |-> chapterMatch(text[i]),
         startsWithDash |-> text[i].bullet = "-",
         sectionMatch |-> sectionMatch(text[i])]]

Parse(text, target) ==
    [outlineText |-> text, targetWordCount |-> target,
     chapters |-> parseOutlineIntoChapters(Matched(text), target)]

\* the first call
ParseFirst ==
    /\ firstParse = <<>>
    /\ \E text \in RawTexts, target \in ParseTargets : firstParse' = <<Parse(text, target)>>
    /\ parseCalls' = parseCalls + 1
    /\ UNCHANGED <<reparse, storeVars, workflowVars, lastCall, chunkVars, gateVars,
                   diskVars, otherVars, monitorVars, clientVars>>

\* a later call with other arguments: its result goes to its caller
ParseOther ==
    /\ firstParse # <<>>
    /\ parseCalls < MaxCalls
    /\ \E text \in OtherTexts :
         Parse(text, firstParse[1].targetWordCount).chapters # <<>>
    /\ parseCalls' = parseCalls + 1
    /\ UNCHANGED <<firstParse, reparse, storeVars, workflowVars, lastCall, chunkVars,
                   gateVars, diskVars, otherVars, monitorVars, clientVars>>

\* a later call with the arguments of the first call
ParseAgain ==
    /\ firstParse # <<>>
    /\ parseCalls < MaxCalls
    /\ reparse' = <<Parse(firstParse[1].outlineText, firstParse[1].targetWordCount)>>
    /\ parseCalls' = parseCalls + 1
    /\ UNCHANGED <<firstParse, storeVars, workflowVars, lastCall, chunkVars, gateVars,
                   diskVars, otherVars, monitorVars, clientVars>>

NextParse ==
    \/ ParseFirst
    \/ ParseOther
    \/ ParseAgain

SpecParse == InitStore /\ [][NextParse]_vars

----------------------------------------------------------------------------
(* The run on a disk whose writes can fail: writeFileSync throws from some
   moment on, and succeeds again once the disk is repaired *)

\* the environment: the disk starts failing
DiskFails ==
    /\ disk = "ok"
    /\ pc \notin {"idle", "done", "failed"}
    /\ disk' = "failing"
    /\ UNCHANGED <<storeVars, workflowVars, lastCall, chunkVars, gateVars, parseVars,
                   otherVars, monitorVars, clientVars>>

\* the environment: the disk is repaired
DiskRecovers ==
    /\ disk = "failing"
    /\ disk' = "repaired"
    /\ UNCHANGED <<storeVars, workflowVars, lastCall, chunkVars, gateVars, parseVars,
                   otherVars, monitorVars, clientVars>>

NextFaulty ==
    \/ Start
    \/ PlanReturns
    \/ PlanThrows
    \/ ChapterStart
    \/ SectionCall
    \/ AttemptReturns
    \/ AttemptExhausted
    \/ AttemptFails
    \/ BackoffElapsed
    \/ ChapterEnd
    \/ ReviewStart
    \/ ReviewReturns
    \/ ReviewThrows
    \/ PublishStart
    \/ RenderReturns
    \/ RenderThrows
    \/ DiskFails
    \/ DiskRecovers

SpecFaulty == InitStore /\ [][NextFaulty]_vars

----------------------------------------------------------------------------
(* Two executions of the workflow at once: the run above, and a second run
   of the same steps under the other workflowId. The section generation of
   the second run always returns; its outline has one chapter of
   MaxOtherSections sections. Every step is the synchronous code between two
   awaits, so the steps of the two runs interleave but do not overlap. *)

\* the workflowId of the second run
OtherId == CHOOSE id \in RunIds : id # workflowId

\* the second run's PLAN: initialize its record
OtherPlanReturns ==
    /\ workflowId # ""
    /\ otherCompleted = <<>>
    /\ LET context == [Context("initialize", OtherId) EXCEPT
                          !.topic = Some(inputData.topic),
                          !.totalChapters = Some(1),
                          !.totalSections = Some(MaxOtherSections),
                          !.targetWordCount = Some(inputData.targetWordCount)]
       IN  store' = ToolExecute(store, context).store
    /\ otherCompleted' = <<0>>
    /\ UNCHANGED <<workflowVars, lastCall, chunkVars, gateVars, parseVars, diskVars,
                   monitorVars, clientVars>>

\* the second run's GENERATE: a section is generated and recorded
OtherAttemptReturns ==
    /\ otherCompleted # <<>>
    /\ otherCompleted[1] < MaxOtherSections
    /\ LET wordCount == WordCount(ResponseText(writer, 1, otherCompleted[1]))
           context == [Context("update", OtherId) EXCEPT
                          !.completedSections = Some(otherCompleted[1] + 1),
                          !.totalWordsGenerated =
                              Some((otherCompleted[1] + 1) * wordCount)]
       IN  store' = ToolExecute(store, context).store
    /\ otherCompleted' = <<otherCompleted[1] + 1>>
    /\ UNCHANGED <<workflowVars, lastCall, chunkVars, gateVars, parseVars, diskVars,
                   monitorVars, clientVars>>

NextConcurrent ==
    \/ Start
    \/ PlanReturns
    \/ PlanThrows
    \/ ChapterStart
    \/ SectionCall
    \/ AttemptReturns
    \/ AttemptExhausted
    \/ AttemptFails
    \/ BackoffElapsed
    \/ ChapterEnd
    \/ ReviewStart
    \/ ReviewReturns
    \/ ReviewThrows
    \/ PublishStart
    \/ RenderReturns
    \/ RenderThrows
    \/ OtherPlanReturns
    \/ OtherAttemptReturns

SpecConcurrent == InitStore /\ [][NextConcurrent]_vars

----------------------------------------------------------------------------
(* A monitor in another process reads a run's file while the tool writes it.
   writeFileSync opens the file with truncation and then writes the text: for
   another process the file is empty or holds a prefix of the text between
   the two. `store` holds the last text written in full; `writing` holds the
   record whose text is being written. *)

\* the calls of the writing process: the kinds of call the pipeline makes
WriterContexts(id) ==
    {[Context("initialize", id) EXCEPT
         !.topic = Some("X"), !.totalChapters = Some(1),
         !.totalSections = Some(1), !.targetWordCount = Some(1000)]}
    \cup {[Context("update", id) EXCEPT !.completedSections = cs, !.currentStep = step] :
             cs \in CountOptions, step \in StepOptions}
    \cup FailContexts(id)
    \cup {Context("complete", id)}

\* saveProgress begins: the file is truncated
WriteBegins ==
    /\ writing = <<>>
    /\ \E id \in StoreIds : \E context \in WriterContexts(id) :
         LET r == ToolExecute(store, context)
         IN  /\ r.success
             /\ WithinLog(r.store, id)
             /\ writing' = <<[workflowId |-> id, action |-> context.action,
                              progress |-> loadProgress(r.store, id)[1]]>>
    /\ UNCHANGED <<storeVars, workflowVars, lastCall, chunkVars, gateVars, parseVars,
                   diskVars, otherVars, observed, clientVars>>

\* saveProgress ends: the text is in the file, execute returns
WriteEnds ==
    /\ writing # <<>>
    /\ store' = saveProgress(store, writing[1].workflowId, writing[1].progress)
    /\ lastCall' = <<[action |-> writing[1].action, success |-> TRUE, thrown |-> Absent]>>
    /\ writing' = <<>>
    /\ UNCHANGED <<workflowVars, chunkVars, gateVars, parseVars, diskVars, otherVars,
                   observed, clientVars>>

\* loadProgress in the monitor's process: a file that does not exist, or whose
\* text JSON.parse rejects, gives null
ReadFile(id) ==
    IF writing # <<>> /\ writing[1].workflowId = id
    THEN Absent
    ELSE loadProgress(store, id)

\* the monitor asks for the progress of a run
MonitorReads ==
    /\ \E id \in StoreIds :
         observed' = <<[workflowId |-> id, progress |-> ReadFile(id)]>>
    /\ UNCHANGED <<storeVars, workflowVars, lastCall, chunkVars, gateVars, parseVars,
                   diskVars, otherVars, writing, clientVars>>

NextMonitor ==
    \/ WriteBegins
    \/ WriteEnds
    \/ MonitorReads

SpecMonitor == InitStore /\ [][NextMonitor]_vars

----------------------------------------------------------------------------
(* The page's start sequence: startWorkflowSequence and its startWorkflow
   loop.  client.pc is where the sequence stands: "idle" before the first
   submit, "fetching" while a start request is out, "waiting" in the timer
   after a failed attempt, "finished" when the sequence has returned. *)

maxAttempts == 3

\* What a start request can come back with: an HTTP status and a body
Statuses == {200, 400, 500, 502, 503, 504}

Bodies == {"", "<html>", "{}", "{workflowId}"}

\* response.ok
Ok(status) == status >= 200 /\ status <= 299

\* [502, 503, 504].includes(response.status)
Warmup(status) == status \in {502, 503, 504}

\* response.json() resolves
JsonParses(body) == body \in {"{}", "{workflowId}"}

\* result.workflowId || result.id || `edu-...`
WorkflowIdOf(body) == IF body = "{workflowId}" THEN "w1" ELSE "edu"

\* errorText || `Failed with status ${response.status}`
ErrorTextOf(status, body) ==
    IF body # "" THEN Message(body, "") ELSE Message("Failed with status", ToString(status))

\* `return { error: lastError || 'Failed to start workflow' }` and what
\* startWorkflowSequence does with it
ReportsError(c, lastError) ==
    [c EXCEPT !.pc = "finished", !.lastError = lastError,
              !.errorMessage = IF TruthyMessage(lastError) THEN lastError
                               ELSE Some(Message("Failed to start workflow", "")),
              !.showProgress = FALSE, !.isGenerating = FALSE]

\* the catch block of the loop: the last attempt breaks out of the loop, an
\* earlier one waits and goes round again
Caught(c, message) ==
    IF c.attempt = maxAttempts
    THEN ReportsError(c, Some(message))
    ELSE [c EXCEPT !.pc = "waiting", !.lastError = Some(message)]

\* the form is submitted: the state is reset and the first request goes out
Submit ==
    /\ client.pc \in {"idle", "finished"}
    /\ client' = [client EXCEPT !.pc = "fetching", !.attempt = 1, !.requests = 1,
                                !.responses = <<>>, !.lastError = Absent,
                                !.isGenerating = TRUE, !.errorMessage = Absent,
                                !.currentWorkflowId = Absent]
    /\ UNCHANGED <<storeVars, workflowVars, lastCall, chunkVars, gateVars, parseVars,
                   diskVars, otherVars, monitorVars>>

\* fetch resolves with a response
FetchResolves ==
    /\ client.pc = "fetching"
    /\ \E status \in Statuses, body \in Bodies :
         LET received == [client EXCEPT !.responses = Append(@, status)]
         IN  client' =
               IF Ok(status)
               THEN IF JsonParses(body)
                    THEN [received EXCEPT !.pc = "finished",
                                          !.currentWorkflowId = Some(WorkflowIdOf(body)),
                                          !.showProgress = TRUE, !.isGenerating = FALSE]
                    ELSE Caught(received, Message("Unexpected token", ""))
               ELSE IF Warmup(status)
                    THEN [received EXCEPT
                             !.pc = "waiting",
                             !.lastError = Some(Message("Backend is still warming up",
                                                        ToString(status)))]
                    ELSE Caught(received, ErrorTextOf(status, body))
    /\ UNCHANGED <<storeVars, workflowVars, lastCall, chunkVars, gateVars, parseVars,
                   diskVars, otherVars, monitorVars>>

\* fetch rejects: the request did not get a response
FetchRejects ==
    /\ client.pc = "fetching"
    /\ client' = Caught([client EXCEPT !.responses = Append(@, 0)],
                        Message("Failed to fetch", ""))
    /\ UNCHANGED <<storeVars, workflowVars, lastCall, chunkVars, gateVars, parseVars,
                   diskVars, otherVars, monitorVars>>

\* the timer of a failed attempt fires: the next attempt's request goes out,
\* or the loop is over and the error is returned
RetryTimer ==
    /\ client.pc = "waiting"
    /\ client' = IF client.attempt + 1 <= maxAttempts
                 THEN [client EXCEPT !.pc = "fetching", !.attempt = @ + 1,
                                     !.requests = @ + 1]
                 ELSE ReportsError([client EXCEPT !.attempt = @ + 1], client.lastError)
    /\ UNCHANGED <<storeVars, workflowVars, lastCall, chunkVars, gateVars, parseVars,
                   diskVars, otherVars, monitorVars>>

NextClient ==
    \/ Submit
    \/ FetchResolves
    \/ FetchRejects
    \/ RetryTimer

SpecClient == InitStore /\ [][NextClient]_vars

----------------------------------------------------------------------------
(* Properties *)

HasRecord(id) == id \in RunIds /\ store[id] # <<>>

\* the run's persisted record (where HasRecord(workflowId))
persisted == store[workflowId][1]

\* the run's invoking call has thrown out of `stage`
RunThrew(stage) == pc = "failed" /\ thrown # <<>> /\ thrown[1].stage = stage

Last(seq) == seq[Len(seq)]

\* C1: when a section's generation fails on its last attempt during GENERATE,
\* the persisted record of the run has status = failed once the run has thrown
C1_GenerateFailurePersisted ==
    RunThrew("GENERATE") => (HasRecord(workflowId) /\ persisted.status = "failed")

\* C2: when the review call fails on an initialized run, the record has been
\* marked failed, with an error entry, by the time the run has thrown
C2_ReviewFailurePersisted ==
    (RunThrew("REVIEW") /\ progressInitialized) =>
        /\ HasRecord(workflowId)
        /\ persisted.status = "failed"
        /\ Len(persisted.errors) > 0

\* C3: no update, complete or fail call changes a status that is already
\* completed or failed
C3_TerminalStatusImmutable ==
    [][\A id \in RunIds :
          (/\ lastCall' # <<>>
           /\ lastCall'[1].action \in {"update", "complete", "fail"}
           /\ store[id] # <<>>
           /\ store[id][1].status \in {"completed", "failed"})
          => (store'[id] # <<>> /\ store'[id][1].status = store[id][1].status)]_vars

\* C4: an update call never changes status, whatever fields it supplies and
\* whatever the record holds; without a record it creates none
C4_UpdateKeepsStatus ==
    [][(lastCall' # <<>> /\ lastCall'[1].action = "update") =>
          \A id \in RunIds :
             IF store[id] = <<>>
             THEN store'[id] = <<>>
             ELSE store'[id] # <<>> /\ store'[id][1].status = store[id][1].status]_vars

\* an update has been applied to a record that was already failed
C4_Witness ==
    /\ lastCall # <<>>
    /\ lastCall[1].action = "update"
    /\ lastCall[1].success
    /\ store["r1"] # <<>>
    /\ store["r1"][1].status = "failed"
    /\ store["r1"][1].currentStep.label = "Reviewing generated content"

ApprovedAndRendered ==
    /\ pc = "done"
    /\ thrown = <<>>
    /\ review # <<>>
    /\ review[1].approvedForPublication
    /\ renderCalls = 1
    /\ result # <<>>
    /\ result[1].bookGenerated

\* C5: persisted status = completed only when the review approved and the
\* rendering call returned; complete is issued on no other path
C5_CompletedOnlyAfterApprovedRender ==
    /\ (HasRecord(workflowId) /\ persisted.status = "completed") => ApprovedAndRendered
    /\ \A i \in 1..Len(storeCalls) :
          storeCalls[i].action = "complete" => ApprovedAndRendered

C5_Witness == HasRecord(workflowId) /\ persisted.status = "completed"

\* C6: when rendering fails, fail is the last store call before the exception
\* leaves PUBLISH, the exception is rethrown, and the persisted status is failed
C6_RenderFailurePersisted ==
    RunThrew("PUBLISH") =>
        /\ Last(storeCalls).action = "fail"
        /\ HasRecord(workflowId)
        /\ persisted.status = "failed"
        /\ Len(persisted.errors) > 0
        /\ Last(persisted.errors).text = "PDF generation failed"

\* C7: on a review that does not approve, PUBLISH makes no rendering call,
\* returns bookGenerated = false without path or size, does not throw, and the
\* record ends failed with an error entry embedding the quality score
C7_RejectedOutcome ==
    (pc = "done" /\ ~review[1].approvedForPublication) =>
        /\ renderCalls = 0
        /\ thrown = <<>>
        /\ result # <<>>
        /\ ~result[1].bookGenerated
        /\ result[1].bookPath = Absent
        /\ result[1].fileSize = Absent
        /\ HasRecord(workflowId)
        /\ persisted.status = "failed"
        /\ Len(persisted.errors) > 0
        /\ Last(persisted.errors).text = "Content not approved for publication (quality score)"
        /\ Last(persisted.errors).arg = review[1].qualityScore

\* C8: when every external call succeeds and the review approves, the run
\* ends with status = completed, currentStep = "Completed" and a result with
\* bookGenerated = true, a path and a size
C8_SuccessOutcome ==
    (pc = "done" /\ review[1].approvedForPublication) =>
        /\ HasRecord(workflowId)
        /\ persisted.status = "completed"
        /\ persisted.currentStep = StepLabel("Completed", 0)
        /\ result # <<>>
        /\ result[1].bookGenerated
        /\ result[1].bookPath # Absent
        /\ result[1].fileSize # Absent

StageOrder == <<"PLAN", "GENERATE", "REVIEW", "PUBLISH", "END">>

\* the stage a position of the run belongs to
StageOf(position) ==
    CASE position = "plan" -> "PLAN"
      [] position \in {"chapter", "section", "awaiting", "backoff", "chapter_end"} -> "GENERATE"
      [] position \in {"review", "reviewing"} -> "REVIEW"
      [] position \in {"publish", "rendering"} -> "PUBLISH"
      [] OTHER -> "END"

StagesInOrder ==
    /\ Len(stageLog) <= Len(StageOrder)
    /\ stageLog = SubSeq(StageOrder, 1, Len(stageLog))
    /\ pc = "idle" <=> stageLog = <<>>
    /\ pc \notin {"idle", "failed"} => Last(stageLog) = StageOf(pc)
    /\ pc = "failed" <=> thrown # <<>>
    /\ thrown # <<>> => Last(stageLog) = thrown[1].stage

\* C9: the stages are entered in the order PLAN, GENERATE, REVIEW, PUBLISH,
\* each once and only when the one before has returned, and the run takes no
\* step after a stage has thrown
C9_StagesInOrder == []StagesInOrder /\ [][thrown = <<>>]_vars

C9_Witness == pc = "done" /\ stageLog = StageOrder /\ result[1].bookGenerated

\* C10: at most one section call is in flight, and the call in flight is for
\* the next section in outline order: every earlier chapter is complete and
\* every earlier section of the chapter is recorded
C10_OneSectionCallInOrder ==
    /\ Cardinality(inFlight) <= 1
    /\ inFlight # {} <=> pc = "awaiting"
    /\ pc = "awaiting" =>
          /\ inFlight = {<<chapter.number, sectionIndex, attempt>>}
          /\ chapter.number = chapterIdx
          /\ sectionIndex < Len(chapter.sections)
          /\ Len(chapterSections) = sectionIndex
          /\ Len(generatedChapters) = chapterIdx - 1
          /\ \A j \in 1..(chapterIdx - 1) :
                Len(generatedChapters[j].sections) = Len(chapters[j].sections)
          /\ completedSections =
                SumSections(SubSeq(chapters, 1, chapterIdx - 1)) + sectionIndex

\* the second attempt for the second section of the second parsed chapter is
\* in flight
C10_Witness ==
    /\ pc = "awaiting"
    /\ Len(chapters) = 2
    /\ chapterIdx = 2
    /\ sectionIndex = 1
    /\ attempt = 2
    /\ inFlight # {}

\* a section's generation has failed on all of its attempts
SectionExhausted == thrown # <<>> /\ thrown[1].stage = "GENERATE"

\* C11: once a section's generation has failed on all of its attempts the run
\* is over: no generation call is in flight or issued afterwards, no later
\* section or chapter is processed, and REVIEW and PUBLISH are never entered
C11_NothingAfterExhaustion ==
    /\ [](SectionExhausted =>
            /\ pc = "failed"
            /\ inFlight = {}
            /\ Last(stageLog) = "GENERATE"
            /\ \A i \in 1..Len(stageLog) : stageLog[i] \notin {"REVIEW", "PUBLISH"}
            /\ review = <<>>
            /\ result = <<>>)
    /\ [][SectionExhausted => UNCHANGED <<inFlight, genVars, callVars, stageLog, clientVars>>]_vars

\* the first section of the first of two chapters has failed on all attempts,
\* with a section and a chapter still to come
C11_Witness ==
    /\ SectionExhausted
    /\ attempt = retryAttempts
    /\ chapterIdx = 1
    /\ sectionIndex = 0
    /\ Len(chapters) = 2
    /\ Len(chapter.sections) = 2
    /\ generatedChapters = <<>>

\* the title of the section whose generation call is the current one
sectionTitle == chapter.sections[sectionIndex + 1]

\* C12: when a section has failed on all 3 attempts and the run has aborted,
\* the run's persisted errors log holds exactly one entry, and that entry is
\* the section-failure message with the failed section's title in it
C12_OneErrorNamingSection ==
    SectionExhausted =>
        /\ HasRecord(workflowId)
        /\ Len(persisted.errors) = 1
        /\ persisted.errors[1].text = "Failed to generate section"
        /\ persisted.errors[1].arg = sectionTitle
        /\ persisted.errors[1].arg = thrown[1].error

\* the failed section is the second of the second chapter of the default
\* structure, after six sections were generated and recorded
C12_Witness ==
    /\ SectionExhausted
    /\ attempt = retryAttempts
    /\ chapterIdx = 2
    /\ sectionIndex = 1
    /\ completedSections = 6
    /\ HasRecord(workflowId)
    /\ persisted.completedChapters = 1

\* C13: no update call, whatever fields it supplies, lowers the stored
\* completedSections or completedChapters of a record
C13_CountersNeverDecrease ==
    [][(lastCall' # <<>> /\ lastCall'[1].action = "update") =>
          \A id \in RunIds :
             (store[id] # <<>> /\ store'[id] # <<>>) =>
                /\ store'[id][1].completedSections >= store[id][1].completedSections
                /\ store'[id][1].completedChapters >= store[id][1].completedChapters]_vars

\* C14: in every persisted state of a pipeline run the counters stay within
\* the totals: completedSections <= totalSections and completedChapters <=
\* totalChapters, the totals being the ones PLAN computed from the outline
C14_WithinTotals ==
    HasRecord(workflowId) =>
        /\ persisted.completedSections <= persisted.totalSections
        /\ persisted.completedChapters <= persisted.totalChapters
        /\ persisted.totalSections = totalSections
        /\ persisted.totalChapters = Len(chapters)

\* every section and chapter of a two-chapter outline is recorded: both
\* counters have reached their totals
C14_Witness ==
    /\ HasRecord(workflowId)
    /\ Len(chapters) = 2
    /\ persisted.totalSections = 2
    /\ persisted.completedSections = 2
    /\ persisted.completedChapters = 2

IsPrefix(s, t) == Len(s) <= Len(t) /\ SubSeq(t, 1, Len(s)) = s

\* C15: under any sequence of initialize, update, get, complete and fail calls
\* on one id, the errors log after a call has the log before it as a prefix:
\* it only grows at its end and is never truncated or reordered
C15_ErrorsAppendOnly ==
    [][\A id \in RunIds :
          store[id] # <<>> =>
             /\ store'[id] # <<>>
             /\ IsPrefix(store[id][1].errors, store'[id][1].errors)]_vars

\* sections of the outline that come before the current one
SectionsBefore == SumSections(SubSeq(chapters, 1, chapterIdx - 1)) + sectionIndex

\* C16: the persisted completedSections starts at 0 and every write leaves it
\* unchanged or raises it by exactly 1; whenever a generation call is about
\* to start or in flight, the writes for all sections before it are done, so
\* the stored counter equals the number of sections generated so far
C16_SectionWritesInStep ==
    /\ [](HasRecord(workflowId) =>
            /\ persisted.completedSections = completedSections
            /\ pc \in {"section", "awaiting", "backoff"} =>
                  persisted.completedSections = SectionsBefore)
    /\ [][\A id \in RunIds :
            /\ (store[id] = <<>> /\ store'[id] # <<>>) =>
                  store'[id][1].completedSections = 0
            /\ (store[id] # <<>> /\ store'[id] # <<>>) =>
                  \/ store'[id][1].completedSections = store[id][1].completedSections
                  \/ store'[id][1].completedSections = store[id][1].completedSections + 1
            /\ store[id] # <<>> => store'[id] # <<>>]_vars

\* the call for the third section is in flight and the store shows two
C16_Witness ==
    /\ pc = "awaiting"
    /\ inFlight # {}
    /\ HasRecord(workflowId)
    /\ SectionsBefore = 2
    /\ persisted.completedSections = 2

\* the call was made with retryAttempts = n, n >= 1
RetryAttemptsGiven ==
    config # <<>> /\ config[1].retryAttempts # Absent /\ config[1].retryAttempts[1] >= 1

\* C17: a call with retryAttempts = n >= 1 invokes the writing capability at
\* most n times; every invocation before the current one failed, so the call
\* returns at the first success; when all n have failed the call throws an
\* error that names the section title and carries the last attempt's message
C17_RetriesUpToN ==
    RetryAttemptsGiven =>
        LET n == config[1].retryAttempts[1]
        IN  /\ invocations <= n
            /\ chunkPc \in {"generating", "returned"} => invocations = Len(chunkErrors) + 1
            /\ chunkPc \in {"waiting", "thrown"} => invocations = Len(chunkErrors)
            /\ chunkPc = "returned" => chunkResult[1].kind = "returned"
            /\ chunkPc = "thrown" =>
                  /\ invocations = n
                  /\ chunkResult[1].kind = "thrown"
                  /\ chunkResult[1].error.sectionTitle = config[1].sectionTitle
                  /\ chunkResult[1].error.message = Some(Last(chunkErrors))

\* a call with retryAttempts = 2 has thrown after a timeout and a rate limit
C17_Witness ==
    /\ RetryAttemptsGiven
    /\ config[1].retryAttempts[1] = 2
    /\ chunkPc = "thrown"
    /\ chunkErrors = <<"timeout", "rate limit">>
    /\ chunkResult[1].error.message = Some("rate limit")

\* C18: the wait before attempt k (k >= 2) is min(1000 * 2^(k-2), 30000) ms,
\* there is one such wait before each attempt after the first and none before
\* attempt 1, and no wait follows the final failed attempt
C18_BackoffSchedule ==
    /\ \A k \in 2..(Len(chunkWaits) + 1) :
          chunkWaits[k - 1] = IF 1000 * 2^(k - 2) <= 30000 THEN 1000 * 2^(k - 2) ELSE 30000
    /\ chunkPc \in {"generating", "returned"} => Len(chunkWaits) = chunkAttempt - 1
    /\ chunkPc = "waiting" => Len(chunkWaits) = chunkAttempt
    /\ (chunkPc = "thrown" /\ chunkErrors # <<>>) => Len(chunkWaits) = Len(chunkErrors) - 1

\* seven attempts have failed: the six waits end with the capped one
C18_Witness ==
    /\ chunkPc = "thrown"
    /\ Len(chunkErrors) = 7
    /\ chunkWaits = <<1000, 2000, 4000, 8000, 16000, 30000>>

\* whitespace-delimited tokens of a text: the maximal runs of non-blank
\* characters
TokenCount(text) ==
    Cardinality({i \in 1..Len(text) : text[i] # " " /\ (i = 1 \/ text[i - 1] = " ")})

\* C19: the wordCount of a returned chunk is the number of whitespace-
\* delimited tokens of its content, for every text, the empty one (0) and
\* those with leading or trailing whitespace included
C19_WordCountIsTokenCount ==
    chunkPc = "returned" =>
        chunkResult[1].chunk.wordCount = TokenCount(chunkResult[1].chunk.content)

\* the review text contains the phrase, in any case
Contains(text, phrase) == \E i \in 1..Len(text) : text[i].kind = phrase

\* positions of "quality score" (in any case) followed, after separators only,
\* by a numeral
ScoredAt(text) ==
    {i \in 1..Len(text) :
        /\ text[i].kind = "quality score"
        /\ \E j \in (i + 1)..Len(text) :
              /\ text[j].kind = "numeral"
              /\ \A m \in (i + 1)..(j - 1) : text[m].kind = "separator"}

\* the numeral after position i
NumeralAfter(text, i) ==
    LET j == CHOOSE j \in (i + 1)..Len(text) :
                /\ text[j].kind = "numeral"
                /\ \A m \in (i + 1)..(j - 1) : text[m].kind = "separator"
    IN  text[j].tenths

\* C20: approved = (score >= 7.0) and the text contains neither "not
\* approved" nor "needs major revision" in any case, the score being the
\* number after the first "quality score" that has one, or 7.5 when there is
\* none; 7.0 without the phrases is approved, any score with one is rejected
C20_PublicationGate ==
    reviewed # <<>> =>
        LET text == reviewed[1].reviewText
            score == reviewed[1].qualityScore
            approved == reviewed[1].approvedForPublication
            phrase == Contains(text, "not approved")
                         \/ Contains(text, "needs major revision")
        IN  /\ ScoredAt(text) = {} => score = 75
            /\ ScoredAt(text) # {} =>
                  \E i \in ScoredAt(text) :
                     /\ \A j \in ScoredAt(text) : i <= j
                     /\ score = NumeralAfter(text, i)
            /\ approved <=> (score >= 70 /\ ~phrase)
            /\ (score = 70 /\ ~phrase) => approved
            /\ phrase => ~approved

\* "QUALITY SCORE: 7.0" and nothing else is approved
C20_Witness ==
    /\ reviewed # <<>>
    /\ reviewed[1].reviewText =
          <<[kind |-> "quality score", lower |-> FALSE, tenths |-> 0],
            [kind |-> "separator", lower |-> TRUE, tenths |-> 0],
            [kind |-> "numeral", lower |-> TRUE, tenths |-> 70]>>
    /\ reviewed[1].qualityScore = 70
    /\ reviewed[1].approvedForPublication

\* the line is a chapter header: no bullet marker, digits (after "Chapter" or
\* not), a separator, then a title
IsHeader(raw) ==
    /\ raw.bullet = ""
    /\ raw.number # Absent
    /\ raw.separator
    /\ raw.label \/ raw.text # ""

\* positions of the header lines of a text
Headers(text) == {i \in 1..Len(text) : IsHeader(text[i])}

\* C21: for a text without a chapter header (the empty text included) the
\* parser returns 8 chapters numbered 1..8 and titled "Chapter 1".."Chapter 8",
\* each with the five fixed sections in order and targetWordCount =
\* floor(requested / 10)
C21_FallbackSkeleton ==
    (firstParse # <<>> /\ Headers(firstParse[1].outlineText) = {}) =>
        LET parsed == firstParse[1].chapters
            requested == firstParse[1].targetWordCount
        IN  /\ Len(parsed) = 8
            /\ \A k \in 1..8 :
                  /\ parsed[k].number = k
                  /\ parsed[k].title = "Chapter " \o ToString(k)
                  /\ parsed[k].sections =
                        <<"Introduction", "Core Concepts", "Practical Examples",
                          "Advanced Topics", "Summary">>
                  /\ 10 * parsed[k].targetWordCount <= requested
                  /\ requested < 10 * parsed[k].targetWordCount + 10

\* a text of bullet lines and a "Chapter A" line, no header, target 1005
C21_Witness ==
    /\ firstParse # <<>>
    /\ Len(firstParse[1].outlineText) = 3
    /\ firstParse[1].outlineText[1].bullet = "-"
    /\ firstParse[1].outlineText[2].keyword
    /\ Headers(firstParse[1].outlineText) = {}
    /\ firstParse[1].targetWordCount = 1005
    /\ Len(firstParse[1].chapters) = 8
    /\ firstParse[1].chapters[8].targetWordCount = 100

C29_SectionsNonEmpty ==
    firstParse # <<>> =>
        \A k \in 1..Len(firstParse[1].chapters) :
            firstParse[1].chapters[k].sections # <<>>

\* the k-th header line of a text
RECURSIVE HeaderLine(_, _, _)
HeaderLine(text, k, from) ==
    IF IsHeader(text[from])
    THEN IF k = 1 THEN text[from] ELSE HeaderLine(text, k - 1, from + 1)
    ELSE HeaderLine(text, k, from + 1)

\* C30: for a text with n > 0 header lines the parser returns n chapters
\* numbered 1..n, the k-th being the one opened by the k-th header line,
\* whatever number that line carries
C30_NumberedByOrder ==
    (firstParse # <<>> /\ Headers(firstParse[1].outlineText) # {}) =>
        LET text == firstParse[1].outlineText
            parsed == firstParse[1].chapters
        IN  /\ Len(parsed) = Cardinality(Headers(text))
            /\ \A k \in 1..Len(parsed) :
                  /\ parsed[k].number = k
                  /\ parsed[k].title = FromLabel(HeaderLine(text, k, 1))

\* the headers carry 3, 1, 1: out of order and duplicated
C30_Witness ==
    /\ firstParse # <<>>
    /\ Len(firstParse[1].outlineText) = 3
    /\ \A i \in 1..3 : IsHeader(firstParse[1].outlineText[i])
    /\ firstParse[1].outlineText[1].number = Some(3)
    /\ firstParse[1].outlineText[2].number = Some(1)
    /\ firstParse[1].outlineText[3].number = Some(1)
    /\ firstParse[1].chapters[1].number = 1
    /\ firstParse[1].chapters[1].title = "B"
    /\ firstParse[1].chapters[3].number = 3

\* PLAN has just returned: GENERATE is entered and has issued no call yet
PlanReturned == pc = "chapter" /\ chapterIdx = 1 /\ Len(storeCalls) = 1

\* C23: when PLAN has returned, the store holds the run's record with status
\* in_progress, both counters 0 and the totals of the parsed outline;
\* initialize is the first store call of the run and comes before every
\* update, complete and fail
C23_PlanLeavesRecord ==
    /\ PlanReturned =>
          /\ HasRecord(workflowId)
          /\ persisted.status = "in_progress"
          /\ persisted.completedSections = 0
          /\ persisted.completedChapters = 0
          /\ persisted.totalChapters = Len(chapters)
          /\ persisted.totalSections = SumSections(chapters)
    /\ \A i \in 1..Len(storeCalls) : storeCalls[i].action = "initialize" <=> i = 1

\* C24: update, complete or fail called for an id without a record fails with
\* the not-found error, which leaves the tool as an exception to its caller,
\* and the store still has no record for the id
C24_NotFoundPropagates ==
    [][\A id \in StoreIds :
          (/\ lastCall' # lastCall
           /\ lastCall'[1].action \in {"update", "complete", "fail"}
           /\ store[id] = <<>>)
          => (/\ lastCall'[1].thrown = Some("No progress found")
              /\ store'[id] = <<>>)]_vars

\* a store write of GENERATE has failed
WriteFailedInGenerate ==
    \E i \in 2..Len(storeCalls) :
        storeCalls[i].action = "update" /\ ~storeCalls[i].success

\* C25: once a store write has failed during GENERATE the run is aborted: no
\* section generation call is issued afterwards
C25_FailedWriteAborts ==
    [][(progressInitialized /\ WriteFailedInGenerate) => inFlight' \subseteq inFlight]_vars

\* C26: of two runs with different workflowIds, every step of one leaves the
\* other's record unchanged, and the completedSections each record holds is
\* the count of its own run's sections
C26_RunsIsolated ==
    /\ [](workflowId # "" =>
            /\ (HasRecord(workflowId) => persisted.completedSections = completedSections)
            /\ (HasRecord(OtherId) =>
                    /\ otherCompleted # <<>>
                    /\ store[OtherId][1].completedSections = otherCompleted[1]))
    /\ [][workflowId # "" =>
            /\ (otherCompleted' = otherCompleted => store'[OtherId] = store[OtherId])
            /\ (workflowVars' = workflowVars => store'[workflowId] = store[workflowId])]_vars

C26_Witness ==
    /\ workflowId # ""
    /\ HasRecord(workflowId)
    /\ HasRecord(OtherId)
    /\ persisted.completedSections = 2
    /\ store[OtherId][1].completedSections = 1
    /\ pc = "awaiting"

\* C27: what a monitor reads while the tool writes is the whole record of
\* before the write or the whole record of after it, and a run that has been
\* initialized is never reported as having no record
C27_ReadsAreSnapshots ==
    [][\A id \in StoreIds :
          (observed' # observed /\ observed'[1].workflowId = id /\ store[id] # <<>>)
          => (/\ observed'[1].progress # Absent
              /\ \/ observed'[1].progress = store[id]
                 \/ writing # <<>> /\ observed'[1].progress = Some(writing[1].progress))]_vars

\* the whole number nearest to 100 * n / d, halves upwards
NearestPercent(n, d) == CHOOSE p \in 0..(100 * n + d) : 2 * d * p <= 200 * n + d /\ 200 * n + d < 2 * d * (p + 1)

\* C28: in every state of a run the progress percentage of the run's record is
\* round(max(completedSections / totalSections,
\* totalWordsGenerated / targetWordCount) * 100) and lies in 0..100
C28_PercentageInRange ==
    HasRecord(workflowId) =>
        LET p == progressPercentage(persisted)
            bySections == NearestPercent(persisted.completedSections, persisted.totalSections)
            byWords == NearestPercent(persisted.totalWordsGenerated, persisted.targetWordCount)
        IN  /\ p = IF bySections >= byWords THEN bySections ELSE byWords
            /\ p \in 0..100

\* a line that begins with a bullet marker and has text after it
IsSectionLine(raw) == raw.bullet # "" /\ AfterBullet(raw) # ""

\* the position of the k-th header line of a text, Len(text) + 1 past the last
RECURSIVE HeaderPosition(_, _, _)
HeaderPosition(text, k, from) ==
    IF from > Len(text) THEN from
    ELSE IF IsHeader(text[from])
         THEN IF k = 1 THEN from ELSE HeaderPosition(text, k - 1, from + 1)
         ELSE HeaderPosition(text, k, from + 1)

\* the positions of the section lines strictly between two positions, in
\* text order
RECURSIVE SectionLinesBetween(_, _, _)
SectionLinesBetween(text, lo, hi) ==
    IF lo + 1 >= hi THEN <<>>
    ELSE (IF IsSectionLine(text[lo + 1]) THEN <<lo + 1>> ELSE <<>>)
             \o SectionLinesBetween(text, lo + 1, hi)

\* C31: the sections of the k-th chapter are the section lines between the
\* k-th header line and the next one, in text order; section lines before the
\* first header are in no chapter; a line that begins with a bullet marker
\* opens no chapter, whatever follows the marker: there are as many chapters
\* as header lines, so no line counts as a header and as a section line
C31_SectionsFollowHeader ==
    (firstParse # <<>> /\ Headers(firstParse[1].outlineText) # {}) =>
        LET text == firstParse[1].outlineText
            parsed == firstParse[1].chapters
        IN  /\ Len(parsed) = Cardinality(Headers(text))
            /\ \A k \in 1..Len(parsed) :
                  LET between == SectionLinesBetween(text, HeaderPosition(text, k, 1),
                                                     HeaderPosition(text, k + 1, 1))
                  IN  /\ Len(parsed[k].sections) = Len(between)
                      /\ \A j \in 1..Len(between) :
                            parsed[k].sections[j] =
                                (IF text[between[j]].label /\ text[between[j]].text # ""
                                    /\ ~text[between[j]].keyword
                                    /\ text[between[j]].number = Absent
                                    /\ ~text[between[j]].separator
                                 THEN text[between[j]].text
                                 ELSE AfterBullet(text[between[j]]))

\* "- S", "3: B", "(bullet) Section 1.1: U", "- 1: A": the first line is
\* dropped, the other two section lines follow the header in text order
C31_Witness ==
    /\ firstParse # <<>>
    /\ Len(firstParse[1].outlineText) = 4
    /\ firstParse[1].outlineText[1].bullet = "-"
    /\ IsHeader(firstParse[1].outlineText[2])
    /\ firstParse[1].outlineText[3].bullet = "*"
    /\ firstParse[1].outlineText[4].bullet = "-"
    /\ firstParse[1].outlineText[4].number # Absent
    /\ Len(firstParse[1].chapters) = 1
    /\ firstParse[1].chapters[1].sections = <<"U", "1: A">>

\* C32: every chapter the parser returns, parsed or fallback, has
\* targetWordCount = floor(requested / 10), however many chapters were found
C32_TenthOfRequested ==
    firstParse # <<>> =>
        \A k \in 1..Len(firstParse[1].chapters) :
            LET words == firstParse[1].chapters[k].targetWordCount
            IN  /\ 10 * words <= firstParse[1].targetWordCount
                /\ firstParse[1].targetWordCount < 10 * (words + 1)

\* two chapters found, 1005 words requested: 100 words each
C32_Witness ==
    /\ firstParse # <<>>
    /\ Cardinality(Headers(firstParse[1].outlineText)) = 2
    /\ firstParse[1].targetWordCount = 1005
    /\ Len(firstParse[1].chapters) = 2
    /\ firstParse[1].chapters[1].targetWordCount = 100
    /\ firstParse[1].chapters[2].targetWordCount = 100

\* what an update with this context may do to a record
UpdateFrame(before, context, after) ==
    /\ after.workflowId = before.workflowId
    /\ after.topic = before.topic
    /\ after.totalChapters = before.totalChapters
    /\ after.totalSections = before.totalSections
    /\ after.targetWordCount = before.targetWordCount
    /\ after.status = before.status
    /\ after.currentStep =
          (IF context.currentStep # Absent /\ context.currentStep[1].label # ""
           THEN context.currentStep[1] ELSE before.currentStep)
    /\ after.completedChapters =
          (IF context.completedChapters = Absent
           THEN before.completedChapters ELSE context.completedChapters[1])
    /\ after.completedSections =
          (IF context.completedSections = Absent
           THEN before.completedSections ELSE context.completedSections[1])
    /\ after.totalWordsGenerated =
          (IF context.totalWordsGenerated = Absent
           THEN before.totalWordsGenerated ELSE context.totalWordsGenerated[1])
    /\ after.errors =
          (IF context.error # Absent /\ context.error[1].text # ""
           THEN before.errors \o <<context.error[1]>> ELSE before.errors)
    /\ after.completedChapterDetails =
          (IF context.chapterCompleted # Absent
           THEN before.completedChapterDetails \o <<context.chapterCompleted[1]>>
           ELSE before.completedChapterDetails)

\* C33: an update call, made on any record the store can hold and with any
\* combination of supplied fields, changes only the fields it supplies:
\* currentStep and the three counters keep their value unless supplied,
\* workflowId, topic, the totals and status never change, and a supplied
\* (non-empty) error or a supplied chapter detail is appended at the end of
\* its list, whose earlier entries stay
C33_UpdateChangesOnlySupplied ==
    \A id \in StoreIds : \A context \in UpdateContexts(id) :
        store[id] # <<>> =>
            LET r == ToolExecute(store, context)
            IN  /\ r.success
                /\ r.store[id] # <<>>
                /\ UpdateFrame(store[id][1], context, r.store[id][1])
                /\ \A other \in RunIds \ {id} : r.store[other] = store[other]

\* an update has been made on a record that already held an error and a
\* chapter detail
C33_Witness ==
    /\ lastCall # <<>>
    /\ lastCall[1].action = "update"
    /\ lastCall[1].success
    /\ store["r1"] # <<>>
    /\ store["r1"][1].status = "completed"
    /\ Len(store["r1"][1].errors) = 1
    /\ Len(store["r1"][1].completedChapterDetails) = 1
    /\ store["r1"][1].completedSections = 1

\* C34: for every record the store can hold, complete called twice leaves
\* status = completed and currentStep = "Completed", with counters, errors and
\* chapter details as they were after the first call
C34_CompleteIdempotent ==
    \A id \in StoreIds :
        store[id] # <<>> =>
            LET once == ToolExecute(store, Context("complete", id))
                twice == ToolExecute(once.store, Context("complete", id))
            IN  /\ once.success /\ twice.success
                /\ twice.store[id] # <<>>
                /\ twice.store[id][1].status = "completed"
                /\ twice.store[id][1].currentStep.label = "Completed"
                /\ twice.store[id][1].completedChapters = once.store[id][1].completedChapters
                /\ twice.store[id][1].completedSections = once.store[id][1].completedSections
                /\ twice.store[id][1].totalWordsGenerated =
                       once.store[id][1].totalWordsGenerated
                /\ twice.store[id][1].errors = once.store[id][1].errors
                /\ twice.store[id][1].completedChapterDetails =
                       once.store[id][1].completedChapterDetails

\* complete has been called on a record with a counter raised and an error
\* logged
C34_Witness ==
    /\ lastCall # <<>>
    /\ lastCall[1].action = "complete"
    /\ lastCall[1].success
    /\ store["r1"] # <<>>
    /\ store["r1"][1].status = "completed"
    /\ store["r1"][1].currentStep.label = "Completed"
    /\ store["r1"][1].completedChapters = 1
    /\ Len(store["r1"][1].errors) = 1

\* an initialize call that supplies the four required fields
SuppliesRequired(context) ==
    /\ context.topic # Absent /\ context.topic[1] # ""
    /\ context.totalChapters # Absent /\ context.totalChapters[1] # 0
    /\ context.totalSections # Absent /\ context.totalSections[1] # 0
    /\ context.targetWordCount # Absent /\ context.targetWordCount[1] # 0

\* C35: initialize (with its required fields) on an id that has a record
\* succeeds without error and replaces the record with a fresh one: status
\* in_progress, counters 0, no errors and no chapter details, whatever the
\* record held
C35_ReinitializeReplaces ==
    \A id \in StoreIds : \A context \in InitializeContexts(id) :
        (store[id] # <<>> /\ SuppliesRequired(context)) =>
            LET r == ToolExecute(store, context)
            IN  /\ r.success
                /\ r.thrown = Absent
                /\ r.store[id] # <<>>
                /\ r.store[id][1].status = "in_progress"
                /\ r.store[id][1].completedChapters = 0
                /\ r.store[id][1].completedSections = 0
                /\ r.store[id][1].totalWordsGenerated = 0
                /\ r.store[id][1].errors = <<>>
                /\ r.store[id][1].completedChapterDetails = <<>>
                /\ r.store[id][1].topic = context.topic[1]
                /\ r.store[id][1].totalSections = context.totalSections[1]

\* an id whose record is failed, with a counter raised and an error logged
C35_Witness ==
    /\ store["r1"] # <<>>
    /\ store["r1"][1].status = "failed"
    /\ store["r1"][1].completedSections = 1
    /\ Len(store["r1"][1].errors) = 1
    /\ ToolExecute(store, [Context("initialize", "r1") EXCEPT
                              !.topic = Some("X"), !.totalChapters = Some(1),
                              !.totalSections = Some(1),
                              !.targetWordCount = Some(1000)]).store["r1"][1].errors = <<>>

\* GENERATE has just returned: the next stage is entered and has done nothing
GenerateReturned ==
    /\ pc = EntryOf(Then("GENERATE"))
    /\ Last(stageLog) = Then("GENERATE")
    /\ review = <<>>
    /\ thrown = <<>>

\* C36: when GENERATE has returned, the record holds completedSections =
\* totalSections and completedChapters = totalChapters, its
\* completedChapterDetails has one entry per chapter in chapter order, and the
\* stage output lists the chapters in outline order with one generated section
\* per outline section
C36_GenerateCompletesAll ==
    GenerateReturned =>
        /\ HasRecord(workflowId)
        /\ persisted.completedSections = persisted.totalSections
        /\ persisted.completedChapters = persisted.totalChapters
        /\ Len(persisted.completedChapterDetails) = Len(chapters)
        /\ \A k \in 1..Len(chapters) :
              /\ k <= Len(persisted.completedChapterDetails)
              /\ persisted.completedChapterDetails[k].chapterNumber = chapters[k].number
              /\ persisted.completedChapterDetails[k].title = chapters[k].title
        /\ Len(generatedChapters) = Len(chapters)
        /\ \A k \in 1..Len(chapters) :
              /\ generatedChapters[k].number = chapters[k].number
              /\ generatedChapters[k].title = chapters[k].title
              /\ Len(generatedChapters[k].sections) = Len(chapters[k].sections)
              /\ \A j \in 1..Len(chapters[k].sections) :
                    generatedChapters[k].sections[j].title = chapters[k].sections[j]

\* the sum of the wordCount fields of a list of generated sections
RECURSIVE SumWordCounts(_)
SumWordCounts(sections) ==
    IF sections = <<>> THEN 0 ELSE Head(sections).wordCount + SumWordCounts(Tail(sections))

\* the word counts of all sections generated so far in the run
RECURSIVE WordsOfChapters(_)
WordsOfChapters(chs) ==
    IF chs = <<>> THEN 0
    ELSE SumWordCounts(Head(chs).sections) + WordsOfChapters(Tail(chs))

WordsGenerated ==
    WordsOfChapters(generatedChapters)
        + (IF pc \in {"section", "awaiting", "backoff", "chapter_end"}
                 \/ RunThrew("GENERATE")
           THEN SumWordCounts(chapterSections) ELSE 0)

\* C37: the persisted totalWordsGenerated is the sum of the word counts of
\* all sections generated so far, after every write of GENERATE; no write
\* lowers it; and the totalWordCount GENERATE returns, which REVIEW passes to
\* PUBLISH as finalWordCount, is the sum over all sections
C37_WordsAreSummed ==
    /\ [](/\ HasRecord(workflowId) => persisted.totalWordsGenerated = WordsGenerated
          /\ GenerateReturned => totalWordCount = WordsOfChapters(generatedChapters)
          /\ review # <<>> =>
                review[1].finalWordCount = WordsOfChapters(generatedChapters)
          /\ result # <<>> =>
                result[1].finalWordCount = WordsOfChapters(generatedChapters))
    /\ [][(HasRecord(workflowId) /\ HasRecord(workflowId)') =>
             persisted'.totalWordsGenerated >= persisted.totalWordsGenerated]_vars

\* PUBLISH has returned the sum of a run of two chapters whose sections have
\* three words each
C37_Witness ==
    /\ result # <<>>
    /\ Len(generatedChapters) = 2
    /\ SumSections(chapters) = 2
    /\ HasRecord(workflowId)
    /\ persisted.totalWordsGenerated = 6
    /\ result[1].finalWordCount = 6

\* how a run can end
EndedInSuccess ==
    pc = "done" /\ thrown = <<>> /\ result # <<>> /\ result[1].bookGenerated

EndedRejected ==
    /\ pc = "done" /\ thrown = <<>> /\ result # <<>> /\ ~result[1].bookGenerated
    /\ review # <<>> /\ ~review[1].approvedForPublication

EndedThrown == pc = "failed" /\ thrown # <<>> /\ result = <<>>

\* C38: when every external call returns or throws in finite time, every
\* started run ends; a section is attempted at most retryAttempts times and
\* visited at most once (a call for a section goes out only when exactly the
\* sections before it have been generated); the run ends in exactly one of
\* success, rejected by review, thrown failure, and does nothing afterwards
C38_RunTerminates ==
    /\ (pc # "idle") ~> (pc \in {"done", "failed"})
    /\ [](pc \in {"awaiting", "backoff"} => attempt \in 1..retryAttempts)
    /\ [](pc \in {"section", "awaiting", "backoff"} => completedSections = SectionsBefore)
    /\ [](pc \in {"done", "failed"} =>
            /\ EndedInSuccess \/ EndedRejected \/ EndedThrown
            /\ ~(EndedInSuccess /\ EndedRejected)
            /\ ~(EndedInSuccess /\ EndedThrown)
            /\ ~(EndedRejected /\ EndedThrown))
    /\ [][(pc \in {"done", "failed"}) => (pc' = pc)]_vars

\* a run ended by the second section's last attempt failing
C38_Witness ==
    /\ EndedThrown
    /\ thrown[1].stage = "GENERATE"
    /\ attempt = retryAttempts
    /\ completedSections = 1
    /\ Len(waits) = retryAttempts - 1

\* the step receives a response to a start request: its status
ResponseReceived == Len(client'.responses) > Len(client.responses)

\* C39: a submit issues at most 3 start requests; the sequence stops at the
\* first response with an OK status (no further request: it finishes and
\* shows the progress of the started run); and when the third attempt has
\* failed the sequence finishes with an error message and without showing
\* progress
C39_BoundedStart ==
    /\ [](client.requests <= 3)
    /\ [][(ResponseReceived /\ Ok(Last(client'.responses))) =>
             (/\ client'.pc = "finished"
              /\ client'.currentWorkflowId # Absent
              /\ client'.showProgress)]_vars
    /\ []((client.pc = "finished" /\ Len(client.responses) = 3
              /\ ~Ok(Last(client.responses))) =>
             (/\ client.errorMessage # Absent
              /\ ~client.showProgress
              /\ client.currentWorkflowId = Absent))

\* C40: a response that is neither OK nor a warm-up status (502, 503, 504)
\* ends the sequence after that request, with the response's error text and
\* without a further attempt
C40_RetryOnlyOnWarmup ==
    [][(/\ ResponseReceived
        /\ Last(client'.responses) # 0
        /\ ~Ok(Last(client'.responses))
        /\ Last(client'.responses) \notin {502, 503, 504}) =>
          (/\ client'.pc = "finished"
           /\ client'.requests = Len(client'.responses)
           /\ client'.errorMessage # Absent
           /\ ~client'.showProgress)]_vars

====
